---- MODULE Spec2Model ----
(***************************************************************************)
(* A model of the ElasticSearch-POC product catalogue service: the         *)
(* benchmark harness of routes/performance (POST /load-test, GET           *)
(* /benchmark, calculatePercentile), the query compilers and result        *)
(* shapers of routes/search, routes/analytics and routes/aggregations, the *)
(* product, bulk, upload and analyzer routes with elasticsearchService     *)
(* under them, the server's start, and the seeding script.                 *)
(*                                                                         *)
(* An async handler runs to completion between two awaits, so a handler is *)
(* one action per segment: the segment from the request to the first       *)
(* await, and the segment that resumes when the awaited engine call        *)
(* settles.  The loop head of the harness is a program position of its own *)
(* (pc = "issue").                                                         *)
(***************************************************************************)
EXTENDS Integers, Sequences, FiniteSets, TLC

VARIABLES
    pc,                 \* position of the performance handler
    endpoint,           \* "none", "loadtest" or "benchmark"
    body,               \* req.body of POST /load-test
    params,             \* the destructured parameters, defaults applied
    i,                  \* load-test: iteration counter; benchmark: unused
    pos,                \* position of the next query (or benchmark test), 1-based
    iterationResults,   \* the iteration's entries so far
    results,            \* results.results (load-test) or results.tests (benchmark)
    outstanding,        \* engine calls issued and not yet settled
    issued,             \* every engine call issued so far, in order
    settled,            \* every engine call settled so far, with the service's result
    now,                \* Date.now()
    response,           \* what the handler sent: status and body
    givenDurations,     \* the durations as the caller collected them
    allDurations,       \* calculatePercentile's caller's list
    statistics,         \* the statistics computed from allDurations
    statsPc,            \* position of the statistics computation
    searchEndpoint,     \* "none", "search" (POST /api/search) or "complex"
    searchBody,         \* req.body of the search request
    searchQuery,        \* the compiled query sent to the engine
    searchPc,           \* position of the search handler
    searchReply,        \* how the awaited engine call settled
    searchResponse,     \* what the search handler sent
    client,             \* elasticsearchService.client: "null" or "set"
    serverPc,           \* position of the app.listen callback
    apiEndpoint,        \* the route of the request in progress, "none" when idle
    apiRequest,         \* the request's input: body, query string or path parameter
    apiPc,              \* position of the route handler
    apiCalls,           \* the client operations the request has invoked, in order
    apiResponse,        \* what the route handler sent
    seedPc,             \* position of seedData
    products,           \* seedData: the generated products
    seedI,              \* seedData: the loop variable i
    inserted,           \* seedData: the inserted counter
    seedCalls,          \* seedData: the service calls made so far, in order
    exitCode            \* the seeding process's exit code, "running" until it ends

harnessVars == <<pc, endpoint, body, params, i, pos, iterationResults, results,
                 outstanding, issued, settled, now, response>>
statsVars == <<givenDurations, allDurations, statistics, statsPc>>
searchVars == <<searchEndpoint, searchBody, searchQuery, searchPc, searchReply,
                searchResponse>>
apiVars == <<client, serverPc, apiEndpoint, apiRequest, apiPc, apiCalls, apiResponse>>
seedVars == <<seedPc, products, seedI, inserted, seedCalls, exitCode>>
vars == <<harnessVars, statsVars, searchVars, apiVars, seedVars>>

-----------------------------------------------------------------------------
(* Bounds of the model.                                                    *)

MaxQueries == 3         \* longest query list of a load-test request
MaxIterations == 2      \* largest iteration count of a load-test request
MaxCalls == 6           \* most engine calls of one load-test run
MaxLen == 4             \* longest duration list given to the statistics
EngineHits == 3         \* hits.total.value the engine reports for a search
EngineTook == 1         \* took the engine reports for a search
MaxPage == 3            \* largest page number a caller asks for
MaxTotal == 4           \* most documents the engine reports for a product listing
MaxBreakpoints == 3      \* longest breakpoint list a caller gives to price-analysis
MaxDocs == 3            \* most documents of one category bucket
MaxBuckets == 2         \* most category buckets the engine reports
MaxItems == 2           \* most products of one bulk or upload request

DurationVals == {2, 10}             \* elapsed milliseconds of one engine call
StatDurationVals == {2, 7, 10}      \* durations in a statistics input
Percentiles == {50, 90, 95, 99}

-----------------------------------------------------------------------------
(* JavaScript values.  A value is a record tagged with its type, so values *)
(* of different types can be compared.                                     *)

Undefined == [t |-> "undefined"]
Null == [t |-> "null"]
Num(n) == [t |-> "number", n |-> n]
Str(s) == [t |-> "string", s |-> s]
Bool(b) == [t |-> "boolean", b |-> b]
Arr(a) == [t |-> "array", a |-> a]
Obj(o) == [t |-> "object", o |-> o]      \* o: the properties, in insertion order

Prop(key, value) == [key |-> key, value |-> value]

\* obj[key]: the property's value, undefined when the object has no such key
Get(obj, key) ==
    IF \E k \in 1..Len(obj.o) : obj.o[k].key = key
        THEN obj.o[CHOOSE k \in 1..Len(obj.o) : obj.o[k].key = key].value
        ELSE Undefined

\* Object.keys(obj)
Keys(obj) == [k \in 1..Len(obj.o) |-> obj.o[k].key]

\* A test that takes the branch for every string, the empty one included.
TruthyOfAnyString(v) == v.t \notin {"undefined", "null"} /\ (v.t = "boolean" => v.b)

\* Whether `if (v)` takes the branch.
Truthy(v) ==
    CASE v.t = "undefined" -> FALSE
      [] v.t = "null" -> FALSE
      [] v.t = "boolean" -> v.b
      [] v.t = "number" -> v.n # 0
      [] v.t = "string" -> v.s # ""
      [] OTHER -> TRUE

(* A JavaScript number that is the result of a division: an exact rational *)
(* in lowest terms, or one of the IEEE specials.                           *)
NaN == [k |-> "NaN"]
PosInfinity == [k |-> "Infinity"]
NegInfinity == [k |-> "-Infinity"]
NoNumber == [k |-> "undefined"]     \* the value undefined where a number is expected

RECURSIVE GCD(_, _)
GCD(a, b) == IF b = 0 THEN a ELSE GCD(b, a % b)

Abs(a) == IF a < 0 THEN -a ELSE a

Fin(a, b) ==
    LET g == GCD(Abs(a), b)
    IN [k |-> "finite", num |-> a \div g, den |-> b \div g]

Whole(a) == Fin(a, 1)

IsFinite(v) == v.k = "finite"

(* a / b for integers a and b >= 0, as IEEE division gives it. *)
JSDiv(a, b) ==
    IF b # 0 THEN Fin(a, b)
    ELSE IF a = 0 THEN NaN
    ELSE IF a > 0 THEN PosInfinity ELSE NegInfinity

(* v * c for a division result v and an integer c > 0. *)
JSTimes(v, c) == IF IsFinite(v) THEN Fin(v.num * c, v.den) ELSE v

(* res.json: JSON has no NaN and no Infinity, both are written as null. *)
JSONNumber(v) == IF IsFinite(v) THEN v ELSE Null

-----------------------------------------------------------------------------
(* Arrays of integers: reduce, Math.min, Math.max, sort.                   *)

RECURSIVE Sum(_)
Sum(s) == IF s = <<>> THEN 0 ELSE Head(s) + Sum(Tail(s))

RECURSIVE SeqMin(_)
SeqMin(s) ==
    IF Len(s) = 1 THEN s[1]
    ELSE LET m == SeqMin(Tail(s)) IN IF Head(s) < m THEN Head(s) ELSE m

RECURSIVE SeqMax(_)
SeqMax(s) ==
    IF Len(s) = 1 THEN s[1]
    ELSE LET m == SeqMax(Tail(s)) IN IF Head(s) > m THEN Head(s) ELSE m

(* Math.min(...arr) and Math.max(...arr): with no argument they return     *)
(* Infinity and -Infinity.                                                 *)
MathMin(arr) == IF arr = <<>> THEN PosInfinity ELSE Whole(SeqMin(arr))
MathMax(arr) == IF arr = <<>> THEN NegInfinity ELSE Whole(SeqMax(arr))

(* The decimal digits of n >= 0, most significant first: String(n). *)
RECURSIVE Digits(_)
Digits(n) == IF n < 10 THEN <<n>> ELSE Append(Digits(n \div 10), n % 10)

(* String(a) < String(b) by code units: what sort() without a comparator   *)
(* compares.                                                               *)
RECURSIVE SeqLess(_, _)
SeqLess(x, y) ==
    IF y = <<>> THEN FALSE
    ELSE IF x = <<>> THEN TRUE
    ELSE IF Head(x) # Head(y) THEN Head(x) < Head(y)
    ELSE SeqLess(Tail(x), Tail(y))

StringLess(a, b) == SeqLess(Digits(a), Digits(b))

(* Whether a sorts before b: under the comparator (a, b) => a - b when the  *)
(* result is negative, under no comparator when String(a) < String(b).     *)
Precedes(cmp, a, b) == IF cmp = "numeric" THEN a - b < 0 ELSE StringLess(a, b)

(* Insert x into the sorted sequence s, after the elements it does not     *)
(* precede (a stable sort).                                                *)
RECURSIVE Insert(_, _, _)
Insert(x, s, cmp) ==
    IF s = <<>> THEN <<x>>
    ELSE IF Precedes(cmp, x, Head(s)) THEN <<x>> \o s
    ELSE <<Head(s)>> \o Insert(x, Tail(s), cmp)

RECURSIVE SortBy(_, _)
SortBy(s, cmp) ==
    IF s = <<>> THEN <<>>
    ELSE Insert(s[Len(s)], SortBy(SubSeq(s, 1, Len(s) - 1), cmp), cmp)

(* Math.ceil(a / b) for a >= 0 and b > 0. *)
Ceil(a, b) == (a + b - 1) \div b

-----------------------------------------------------------------------------
(* calculatePercentile.  The result carries the value returned and the     *)
(* caller's array as the call leaves it.                                   *)

\* A sort without the numeric comparator orders the durations as strings.
SortedCopyByString(arr) == [sorted |-> SortBy(arr, "string"), arr |-> arr]

\* A sort of the array itself, without slice(), reorders the caller's list.
SortedCopyInPlace(arr) ==
    [sorted |-> SortBy(arr, "numeric"), arr |-> SortBy(arr, "numeric")]

\* arr.slice().sort((a, b) => a - b)
SortedCopy(arr) == [sorted |-> SortBy(arr, "numeric"), arr |-> arr]

\* Math.floor in the place of Math.ceil.
PercentileIndexFloor(percentile, n) == ((percentile * n) \div 100) - 1

\* Math.ceil((percentile / 100) * sorted.length) - 1, a 0-based index
PercentileIndex(percentile, n) == Ceil(percentile * n, 100) - 1

calculatePercentile(arr, percentile) ==
    LET c == SortedCopy(arr)
        index == PercentileIndex(percentile, Len(c.sorted))
    IN [value |-> IF index + 1 \in 1..Len(c.sorted)
                    THEN Whole(c.sorted[index + 1])
                    ELSE NoNumber,
        arr |-> c.arr]

-----------------------------------------------------------------------------
(* The statistics of POST /load-test, over the durations of all calls.     *)

\* The fraction of successful calls, not multiplied by 100.
SuccessFraction(successful, total) == JSDiv(successful, total)

\* (successfulQueries.length / allDurations.length) * 100
SuccessRate(successful, total) == JSTimes(JSDiv(successful, total), 100)

\* Statistics that count only the successful calls as queries.
LoadTestStatisticsOfSuccessful(durations, successful) ==
    [stats |->
        [totalQueries |-> successful,
         successfulQueries |-> successful,
         failedQueries |-> 0,
         successRate |-> SuccessRate(successful, successful),
         averageDuration |-> JSDiv(Sum(durations), Len(durations)),
         minDuration |-> MathMin(durations),
         maxDuration |-> MathMax(durations),
         p50Duration |-> calculatePercentile(durations, 50).value,
         p90Duration |-> calculatePercentile(durations, 90).value,
         p95Duration |-> calculatePercentile(durations, 95).value,
         p99Duration |-> calculatePercentile(durations, 99).value],
     arr |-> durations]

LoadTestStatistics(durations, successful) ==
    LET p50 == calculatePercentile(durations, 50)
        p90 == calculatePercentile(p50.arr, 90)
        p95 == calculatePercentile(p90.arr, 95)
        p99 == calculatePercentile(p95.arr, 99)
    IN [stats |->
           [totalQueries |-> Len(durations),
            successfulQueries |-> successful,
            failedQueries |-> Len(durations) - successful,
            successRate |-> SuccessRate(successful, Len(durations)),
            averageDuration |-> JSDiv(Sum(durations), Len(durations)),
            minDuration |-> MathMin(durations),
            maxDuration |-> MathMax(durations),
            p50Duration |-> p50.value,
            p90Duration |-> p90.value,
            p95Duration |-> p95.value,
            p99Duration |-> p99.value],
        arr |-> p99.arr]

\* A summary over the durations of all tests, the failed ones included.
BenchmarkSummaryOfAll(tests) ==
    LET successfulTests == SelectSeq(tests, LAMBDA test : test.success)
        durations == [k \in 1..Len(tests) |-> tests[k].duration]
    IN [totalTests |-> Len(tests),
        successfulTests |-> Len(successfulTests),
        failedTests |-> Len(tests) - Len(successfulTests),
        averageDuration |-> JSDiv(Sum(durations), Len(durations)),
        minDuration |-> MathMin(durations),
        maxDuration |-> MathMax(durations)]

(* The summary of GET /benchmark, over the durations of the successful     *)
(* tests.                                                                  *)
BenchmarkSummary(tests) ==
    LET successfulTests == SelectSeq(tests, LAMBDA test : test.success)
        durations == [k \in 1..Len(successfulTests) |-> successfulTests[k].duration]
    IN [totalTests |-> Len(tests),
        successfulTests |-> Len(successfulTests),
        failedTests |-> Len(tests) - Len(successfulTests),
        averageDuration |-> JSDiv(Sum(durations), Len(durations)),
        minDuration |-> MathMin(durations),
        maxDuration |-> MathMax(durations)]

-----------------------------------------------------------------------------
(* The engine client and elasticsearchService.  A client call settles with *)
(* a response or is rejected with an error that carries a status.          *)

Reply(resp) == [ok |-> TRUE, resp |-> resp]
Reject(status, message) == [ok |-> FALSE, status |-> status, message |-> message]

Return(value) == [threw |-> FALSE, value |-> value]
Throw(message) == [threw |-> TRUE, message |-> message]

SearchResponse == [t |-> "object", hits |-> EngineHits, took |-> EngineTook]
IndexResponse == [t |-> "object", result |-> "created"]
GetResponse(id) == [t |-> "object", source |-> [t |-> "object", id |-> id]]

UpdateResponse == [t |-> "object", result |-> "updated"]
DeleteResponse == [t |-> "object", result |-> "deleted"]
SuggestResponse == [t |-> "object", options |-> <<>>]
AnalyzeResponse == [t |-> "object", tokens |-> <<>>]
HealthResponse == [t |-> "object", status |-> "green"]
PingResponse == [t |-> "object"]

(* The response to a bulk request: one item per document, in order, each   *)
(* with an error or without; errors tells whether any item has one.        *)
(* items[k] = TRUE stands for an item that carries index.error.            *)
BulkResponse(items) ==
    [t |-> "object",
     errors |-> \E k \in 1..Len(items) : items[k],
     items |-> items]

EngineError == Reject(500, "engine error")
NotFound == Reject(404, "Not Found")

(* What the engine may answer to each client operation. *)
ClientOutcomes(op, arg) ==
    CASE op = "search" -> {Reply(SearchResponse), EngineError}
      [] op = "index" -> {Reply(IndexResponse), EngineError}
      [] op = "get" -> {Reply(GetResponse(arg)), NotFound, EngineError}
      [] op = "update" -> {Reply(UpdateResponse), NotFound, EngineError}
      [] op = "delete" -> {Reply(DeleteResponse), NotFound, EngineError}
      [] op = "bulk" -> IF arg = 0 THEN {EngineError}
                        ELSE {Reply(BulkResponse(items)) : items \in [1..arg -> BOOLEAN]}
                                \cup {EngineError}
      [] op = "suggest" -> {Reply(SuggestResponse), EngineError}
      [] op = "analyze" -> {Reply(AnalyzeResponse), EngineError}
      [] op = "health" -> {Reply(HealthResponse), EngineError}
      [] op = "ping" -> {Reply(PingResponse), EngineError}

\* search: the response, or the error rethrown
ServiceSearch(outcome) ==
    IF outcome.ok THEN Return(outcome.resp) ELSE Throw(outcome.message)

\* indexDocument: the response, or the error rethrown
ServiceIndexDocument(outcome) ==
    IF outcome.ok THEN Return(outcome.resp) ELSE Throw(outcome.message)

\* getDocument: response._source, null on a 404, any other error rethrown
ServiceGetDocument(outcome) ==
    IF outcome.ok THEN Return(outcome.resp.source)
    ELSE IF outcome.status = 404 THEN Return(Null)
    ELSE Throw(outcome.message)

Service(op, outcome) ==
    CASE op = "search" -> ServiceSearch(outcome)
      [] op = "index" -> ServiceIndexDocument(outcome)
      [] op = "get" -> ServiceGetDocument(outcome)

-----------------------------------------------------------------------------
(* POST /api/performance/load-test                                         *)

NoResponse == [status |-> 0]

Query(k) == [id |-> k]
QueryList(q) == [k \in 1..q |-> Query(k)]

(* The request bodies of the model.  iterations is always given: its       *)
(* default of 10 would take the run past MaxCalls.                         *)
LoadTestBodies ==
    { [queries |-> qs, iterations |-> Num(n), concurrent |-> c, testType |-> tt] :
        qs \in {Undefined, Str("q")} \cup {Arr(QueryList(q)) : q \in 0..MaxQueries},
        n \in 0..MaxIterations,
        c \in {Undefined, Num(2)},
        tt \in {Undefined, Str("index"), Str("get"), Str("count")} }

WithinCalls(b) ==
    b.queries.t = "array" => Len(b.queries.a) * b.iterations.n <= MaxCalls

\* const { queries = [], iterations = 10, concurrent = 5, testType = 'search' } = req.body
Destructure(b) ==
    [queries |-> IF b.queries = Undefined THEN Arr(<<>>) ELSE b.queries,
     iterations |-> IF b.iterations = Undefined THEN 10 ELSE b.iterations.n,
     concurrent |-> IF b.concurrent = Undefined THEN 5 ELSE b.concurrent.n,
     testType |-> IF b.testType = Undefined THEN "search" ELSE b.testType.s]

\* switch (testType): the service operation called
OperationOf(testType) ==
    CASE testType = "search" -> "search"
      [] testType = "index" -> "index"
      [] testType = "get" -> "get"
      [] OTHER -> "search"

\* A catch block that also reports a hit count.
FailedEntryWithHits(query, duration, message) ==
    [query |-> query, success |-> FALSE, duration |-> duration, error |-> message,
     hits |-> 0]

\* The entry of a call that threw.
FailedEntry(query, duration, message) ==
    [query |-> query, success |-> FALSE, duration |-> duration, error |-> message]

\* An entry that takes a null response for a success with no hits.
LoadTestEntryOfNullAsSuccess(query, duration, result) ==
    IF result.threw THEN FailedEntry(query, duration, result.message)
    ELSE [query |-> query, success |-> TRUE, duration |-> duration,
          hits |-> IF result.value # Null /\ "hits" \in DOMAIN result.value
                     THEN result.value.hits ELSE 0,
          took |-> IF result.value # Null /\ "took" \in DOMAIN result.value
                     THEN result.value.took ELSE 0]

(* The entry pushed for one call: the try block's entry, or the catch      *)
(* block's when the service threw or when reading response.hits of a null  *)
(* response threw.  responseSize, the length of the serialised response,   *)
(* is left out.                                                            *)
LoadTestEntry(query, duration, result) ==
    IF result.threw THEN FailedEntry(query, duration, result.message)
    ELSE IF result.value = Null
        THEN FailedEntry(query, duration, "Cannot read properties of null (reading 'hits')")
    ELSE [query |-> query, success |-> TRUE, duration |-> duration,
          hits |-> IF "hits" \in DOMAIN result.value THEN result.value.hits ELSE 0,
          took |-> IF "took" \in DOMAIN result.value THEN result.value.took ELSE 0]

RECURSIVE Flatten(_)
Flatten(rs) == IF rs = <<>> THEN <<>> ELSE Head(rs).queries \o Flatten(Tail(rs))

DurationsOf(entries) == [k \in 1..Len(entries) |-> entries[k].duration]
SuccessfulOf(entries) == SelectSeq(entries, LAMBDA e : e.success)

Call(op, arg, iteration, position, start) ==
    [op |-> op, arg |-> arg, iteration |-> iteration, position |-> position,
     start |-> start]

Settled(call, result, endTime) ==
    [call |-> call, result |-> result, endTime |-> endTime]

\* The record of an iteration numbered from 0, as the loop counter is.
IterationRecordZeroBased(iteration, entries) ==
    [iteration |-> iteration, queries |-> entries]

\* results.results.push({ iteration: i + 1, queries: iterationResults })
IterationRecord(iteration, entries) ==
    [iteration |-> iteration + 1, queries |-> entries]

HarnessInit ==
    /\ pc = "idle"
    /\ endpoint = "none"
    /\ body = Undefined
    /\ params = Undefined
    /\ i = 0
    /\ pos = 1
    /\ iterationResults = <<>>
    /\ results = <<>>
    /\ outstanding = {}
    /\ issued = <<>>
    /\ settled = <<>>
    /\ now = 0
    /\ response = NoResponse

(* The request arrives: destructuring, the 400 for a missing or empty      *)
(* query list, the results object.                                         *)
LoadTestReceive ==
    /\ pc = "idle"
    /\ \E b \in LoadTestBodies :
        /\ WithinCalls(b)
        /\ body' = b
        /\ params' = Destructure(b)
        /\ endpoint' = "loadtest"
        /\ IF params'.queries.t # "array" \/ Len(params'.queries.a) = 0
             THEN /\ response' = [status |-> 400,
                                  error |-> "Queries array is required and must not be empty"]
                  /\ pc' = "done"
             ELSE /\ response' = response
                  /\ pc' = "issue"
    /\ UNCHANGED <<statsVars, searchVars, apiVars, seedVars>>
    /\ UNCHANGED <<i, pos, iterationResults, results, outstanding, issued, settled, now>>

\* An issue that does not wait for the outstanding call to settle.
LoadTestMayIssueConcurrently ==
    /\ endpoint = "loadtest"
    /\ pc \in {"issue", "await"}
    /\ Cardinality(outstanding) < params.concurrent
    /\ i < params.iterations

\* The loop head: the next call is issued when the previous one has settled.
LoadTestMayIssue ==
    /\ endpoint = "loadtest"
    /\ pc = "issue"
    /\ i < params.iterations

(* for (i < iterations) for (query of queries): startTime, the await of    *)
(* the service call.                                                       *)
LoadTestIssue ==
    /\ LoadTestMayIssue
    /\ LET query == params.queries.a[pos]
           op == OperationOf(params.testType)
           call == Call(op, IF op = "get" THEN query.id ELSE query, i + 1, pos, now)
       IN /\ outstanding' = outstanding \cup {call}
          /\ issued' = Append(issued, call)
    /\ pc' = "await"
    /\ UNCHANGED <<statsVars, searchVars, apiVars, seedVars>>
    /\ UNCHANGED <<endpoint, body, params, i, pos, iterationResults, results,
                   settled, now, response>>

(* The awaited call settles after d milliseconds: the entry is pushed,     *)
(* and after the last query the iteration's record.                        *)
LoadTestSettle ==
    /\ endpoint = "loadtest"
    /\ pc = "await"
    /\ \E call \in outstanding, d \in DurationVals :
       \E outcome \in ClientOutcomes(call.op, call.arg) :
        LET endTime == now + d
            query == params.queries.a[call.position]
            result == Service(call.op, outcome)
            entry == LoadTestEntry(query, endTime - call.start, result)
            entries == Append(iterationResults, entry)
        IN /\ now' = endTime
           /\ outstanding' = outstanding \ {call}
           /\ settled' = Append(settled, Settled(call, result, endTime))
           /\ IF pos = Len(params.queries.a)
                THEN /\ results' = Append(results, IterationRecord(i, entries))
                     /\ iterationResults' = <<>>
                     /\ i' = i + 1
                     /\ pos' = 1
                ELSE /\ iterationResults' = entries
                     /\ pos' = pos + 1
                     /\ UNCHANGED <<results, i>>
    /\ pc' = "issue"
    /\ UNCHANGED <<statsVars, searchVars, apiVars, seedVars>>
    /\ UNCHANGED <<endpoint, body, params, issued, response>>

\* res.json(results), with the statistics over all entries
LoadTestResult(p, rs) ==
    LET entries == Flatten(rs)
    IN [status |-> 200, testType |-> p.testType, iterations |-> p.iterations,
        concurrent |-> p.concurrent, totalQueries |-> Len(p.queries.a),
        results |-> rs,
        statistics |-> LoadTestStatistics(DurationsOf(entries),
                                          Len(SuccessfulOf(entries))).stats]

(* The loop has ended: the statistics and the response. *)
LoadTestFinish ==
    /\ endpoint = "loadtest"
    /\ pc = "issue"
    /\ ~(i < params.iterations)
    /\ response' = LoadTestResult(params, results)
    /\ pc' = "done"
    /\ UNCHANGED <<statsVars, searchVars, apiVars, seedVars>>
    /\ UNCHANGED <<endpoint, body, params, i, pos, iterationResults, results,
                   outstanding, issued, settled, now>>

-----------------------------------------------------------------------------
(* GET /api/performance/benchmark                                          *)

BenchmarkTests ==
    <<"Simple Match Query", "Multi-Match Query", "Range Query",
      "Bool Query with Filters", "Aggregation Query", "Complex Search with Sorting">>

\* The entry of one benchmark test: the try block's, or the catch block's.
BenchmarkEntry(name, duration, result) ==
    IF result.threw
        THEN [name |-> name, success |-> FALSE, duration |-> duration,
              error |-> result.message]
        ELSE [name |-> name, success |-> TRUE, duration |-> duration,
              elasticsearchTook |-> result.value.took,
              totalHits |-> result.value.hits]

BenchmarkReceive ==
    /\ pc = "idle"
    /\ endpoint' = "benchmark"
    /\ pc' = "issue"
    /\ UNCHANGED <<statsVars, searchVars, apiVars, seedVars>>
    /\ UNCHANGED <<body, params, i, pos, iterationResults, results, outstanding,
                   issued, settled, now, response>>

\* The loop head: the next test is issued when the previous one has settled.
BenchmarkMayIssue ==
    /\ endpoint = "benchmark"
    /\ pc = "issue"
    /\ pos <= Len(BenchmarkTests)

\* for (test of benchmarkTests): startTime, the await of search(test.query)
BenchmarkIssue ==
    /\ BenchmarkMayIssue
    /\ LET call == Call("search", BenchmarkTests[pos], 1, pos, now)
       IN /\ outstanding' = outstanding \cup {call}
          /\ issued' = Append(issued, call)
    /\ pc' = "await"
    /\ UNCHANGED <<statsVars, searchVars, apiVars, seedVars>>
    /\ UNCHANGED <<endpoint, body, params, i, pos, iterationResults, results,
                   settled, now, response>>

\* The awaited search settles after d milliseconds: the test's entry is pushed.
BenchmarkSettle ==
    /\ endpoint = "benchmark"
    /\ pc = "await"
    /\ \E call \in outstanding, d \in DurationVals :
       \E outcome \in ClientOutcomes(call.op, call.arg) :
        LET endTime == now + d
            result == Service(call.op, outcome)
        IN /\ now' = endTime
           /\ outstanding' = outstanding \ {call}
           /\ settled' = Append(settled, Settled(call, result, endTime))
           /\ results' = Append(results,
                                BenchmarkEntry(BenchmarkTests[call.position],
                                               endTime - call.start, result))
    /\ pos' = pos + 1
    /\ pc' = "issue"
    /\ UNCHANGED <<statsVars, searchVars, apiVars, seedVars>>
    /\ UNCHANGED <<endpoint, body, params, i, iterationResults, issued, response>>

\* res.json(results), with the summary over the successful tests
BenchmarkResult(tests) ==
    [status |-> 200, tests |-> tests, summary |-> BenchmarkSummary(tests)]

BenchmarkFinish ==
    /\ endpoint = "benchmark"
    /\ pc = "issue"
    /\ ~(pos <= Len(BenchmarkTests))
    /\ response' = BenchmarkResult(results)
    /\ pc' = "done"
    /\ UNCHANGED <<statsVars, searchVars, apiVars, seedVars>>
    /\ UNCHANGED <<endpoint, body, params, i, pos, iterationResults, results,
                   outstanding, issued, settled, now>>

Next ==
    \/ LoadTestReceive
    \/ LoadTestIssue
    \/ LoadTestSettle
    \/ LoadTestFinish
    \/ BenchmarkReceive
    \/ BenchmarkIssue
    \/ BenchmarkSettle
    \/ BenchmarkFinish

StatsIdle ==
    /\ givenDurations = <<>>
    /\ allDurations = <<>>
    /\ statistics = Undefined
    /\ statsPc = "idle"

SearchIdle ==
    /\ searchEndpoint = "none"
    /\ searchResponse = NoResponse
    /\ searchReply = Undefined
    /\ searchBody = Undefined
    /\ searchQuery = Undefined
    /\ searchPc = "idle"

\* No request to the product and upload routes in progress.
RouteIdle ==
    /\ apiEndpoint = "none"
    /\ apiRequest = Undefined
    /\ apiPc = "idle"
    /\ apiCalls = <<>>
    /\ apiResponse = NoResponse

\* The server up and the service initialized.
ApiIdle ==
    /\ client = "set"
    /\ serverPc = "ready"
    /\ RouteIdle

\* The seeding script not run.
SeedIdle ==
    /\ seedPc = "idle"
    /\ products = <<>>
    /\ seedI = 0
    /\ inserted = 0
    /\ seedCalls = <<>>
    /\ exitCode = "running"

Init == HarnessInit /\ StatsIdle /\ SearchIdle /\ ApiIdle /\ SeedIdle

Spec == Init /\ [][Next]_vars

-----------------------------------------------------------------------------
(* The statistics on their own: calculatePercentile and the statistics     *)
(* object of POST /load-test applied to a list of durations.               *)

SeqsUpTo(S, n) == UNION {[1..m -> S] : m \in 0..n}

StatsInit ==
    /\ givenDurations \in SeqsUpTo(StatDurationVals, MaxLen)
    /\ allDurations = givenDurations
    /\ statistics = Undefined
    /\ statsPc = "input"

\* calculatePercentile(allDurations, p)
CallCalculatePercentile ==
    /\ statsPc = "input"
    /\ \E p \in Percentiles :
        LET r == calculatePercentile(allDurations, p)
        IN /\ statistics' = [call |-> "calculatePercentile", percentile |-> p,
                             value |-> r.value]
           /\ allDurations' = r.arr
    /\ statsPc' = "done"
    /\ UNCHANGED <<harnessVars, searchVars, apiVars, seedVars, givenDurations>>

\* const statistics = {...}, of which `successful` calls succeeded
CallStatistics ==
    /\ statsPc = "input"
    /\ \E successful \in 0..Len(allDurations) :
        LET r == LoadTestStatistics(allDurations, successful)
        IN /\ statistics' = [call |-> "statistics", successful |-> successful,
                             stats |-> r.stats]
           /\ allDurations' = r.arr
    /\ statsPc' = "done"
    /\ UNCHANGED <<harnessVars, searchVars, apiVars, seedVars, givenDurations>>

StatsNext ==
    \/ CallCalculatePercentile
    \/ CallStatistics

InitStats == HarnessInit /\ StatsInit /\ SearchIdle /\ ApiIdle /\ SeedIdle

SpecStats == InitStats /\ [][StatsNext]_vars

-----------------------------------------------------------------------------
(* POST /api/search: the query compiler.                                   *)

Absent == [t |-> "absent"]      \* a key the caller's object does not have

Clause(kind, field, value) == [kind |-> kind, field |-> field, value |-> value]

\* priceRange: gte from priceMin and lte from priceMax, whichever is not undefined
PriceRange(min, max) ==
    Obj((IF min # Undefined THEN <<Prop("gte", min)>> ELSE <<>>)
        \o (IF max # Undefined THEN <<Prop("lte", max)>> ELSE <<>>))

\* The clause a key of the filters object stands for, if any.
ClauseOfKey(filters, key, earlier) ==
    CASE key = "category" /\ Truthy(Get(filters, "category")) ->
            <<Clause("term", "category", Get(filters, "category"))>>
      [] key \in {"priceMin", "priceMax"}
            /\ ~\E k \in 1..Len(earlier) : earlier[k] \in {"priceMin", "priceMax"} ->
            <<Clause("range", "price",
                     PriceRange(Get(filters, "priceMin"), Get(filters, "priceMax")))>>
      [] key = "rating" /\ Truthy(Get(filters, "rating")) ->
            <<Clause("range", "rating", Obj(<<Prop("gte", Get(filters, "rating"))>>))>>
      [] key = "inStock" ->
            <<Clause("term", "inStock", Get(filters, "inStock"))>>
      [] key = "tags" /\ Len(Get(filters, "tags").a) > 0 ->
            <<Clause("terms", "tags", Get(filters, "tags"))>>
      [] OTHER -> <<>>

RECURSIVE ClausesOfKeys(_, _, _)
ClausesOfKeys(filters, keys, n) ==
    IF n = 0 THEN <<>>
    ELSE ClausesOfKeys(filters, keys, n - 1)
            \o ClauseOfKey(filters, keys[n], SubSeq(keys, 1, n - 1))

\* A builder that walks Object.keys(filters) and emits each key's clause as it comes.
FilterQueriesInKeyOrder(filters) ==
    ClausesOfKeys(filters, Keys(filters), Len(Keys(filters)))

\* filterQueries: one push per test of the filters object, in the order of the tests
FilterQueries(filters) ==
    LET category == Get(filters, "category")
        priceMin == Get(filters, "priceMin")
        priceMax == Get(filters, "priceMax")
        rating == Get(filters, "rating")
        inStock == Get(filters, "inStock")
        tags == Get(filters, "tags")
    IN (IF Truthy(category) THEN <<Clause("term", "category", category)>> ELSE <<>>)
       \o (IF priceMin # Undefined \/ priceMax # Undefined
             THEN <<Clause("range", "price", PriceRange(priceMin, priceMax))>>
             ELSE <<>>)
       \o (IF Truthy(rating)
             THEN <<Clause("range", "rating", Obj(<<Prop("gte", rating)>>))>>
             ELSE <<>>)
       \o (IF inStock # Undefined THEN <<Clause("term", "inStock", inStock)>> ELSE <<>>)
       \o (IF Truthy(tags) /\ Len(tags.a) > 0
             THEN <<Clause("terms", "tags", tags)>>
             ELSE <<>>)

\* `*${query}*`
Wildcard(query) == <<"*", IF query.t = "string" THEN query.s ELSE query.t, "*">>

\* A dispatch whose default branch compiles the multi-field match.
PrimaryMatchDefaultingToMultiMatch(searchType, query) ==
    CASE searchType = Str("match_phrase") ->
            [kind |-> "match_phrase", field |-> "name", query |-> query, slop |-> 2]
      [] searchType = Str("wildcard") ->
            [kind |-> "wildcard", field |-> "name", value |-> Wildcard(query),
             case_insensitive |-> TRUE]
      [] searchType = Str("fuzzy") ->
            [kind |-> "fuzzy", field |-> "name", value |-> query, fuzziness |-> 2]
      [] OTHER ->
            [kind |-> "multi_match", query |-> query,
             fields |-> <<"name^3", "description^2", "category", "tags">>,
             type |-> "best_fields", fuzziness |-> "AUTO"]

\* switch (searchType): the primary match; case labels compare with ===
PrimaryMatch(searchType, query) ==
    CASE searchType = Str("multi_match") ->
            [kind |-> "multi_match", query |-> query,
             fields |-> <<"name^3", "description^2", "category", "tags">>,
             type |-> "best_fields", fuzziness |-> "AUTO"]
      [] searchType = Str("match_phrase") ->
            [kind |-> "match_phrase", field |-> "name", query |-> query, slop |-> 2]
      [] searchType = Str("wildcard") ->
            [kind |-> "wildcard", field |-> "name", value |-> Wildcard(query),
             case_insensitive |-> TRUE]
      [] searchType = Str("fuzzy") ->
            [kind |-> "fuzzy", field |-> "name", value |-> query, fuzziness |-> 2]
      [] OTHER -> [kind |-> "match_all"]

Default(v, d) == IF v = Undefined THEN d ELSE v

\* A destructuring that gives searchType no default.
SearchParamsWithoutTypeDefault(b) ==
    [query |-> b.query,
     filters |-> Default(b.filters, Obj(<<>>)),
     page |-> Default(b.page, Num(1)).n,
     size |-> Default(b.size, Num(10)).n,
     sort |-> Default(b.sort, Str("createdAt")).s,
     order |-> Default(b.order, Str("desc")).s,
     searchType |-> b.searchType]

\* const { query, filters = {}, page = 1, size = 10, sort, order, searchType } = req.body
SearchParams(b) ==
    [query |-> b.query,
     filters |-> Default(b.filters, Obj(<<>>)),
     page |-> Default(b.page, Num(1)).n,
     size |-> Default(b.size, Num(10)).n,
     sort |-> Default(b.sort, Str("createdAt")).s,
     order |-> Default(b.order, Str("desc")).s,
     searchType |-> Default(b.searchType, Str("multi_match"))]

\* A compiler that wraps the primary match whenever the filters object has a key.
CompileSearchWrappingAnyFilters(b) ==
    LET p == SearchParams(b)
        primary == PrimaryMatch(p.searchType, p.query)
    IN [query |-> IF Len(Keys(p.filters)) > 0
                    THEN [kind |-> "bool", must |-> <<primary>>,
                          filter |-> FilterQueries(p.filters)]
                    ELSE primary,
        from |-> (p.page - 1) * p.size,
        size |-> p.size,
        sort |-> <<[field |-> p.sort, order |-> p.order]>>]

\* The query object handed to elasticsearchService.search
CompileSearch(b) ==
    LET p == SearchParams(b)
        primary == PrimaryMatch(p.searchType, p.query)
        filterQueries == FilterQueries(p.filters)
    IN [query |-> IF Len(Keys(p.filters)) > 0 /\ Len(filterQueries) > 0
                    THEN [kind |-> "bool", must |-> <<primary>>,
                          filter |-> filterQueries]
                    ELSE primary,
        from |-> (p.page - 1) * p.size,
        size |-> p.size,
        sort |-> <<[field |-> p.sort, order |-> p.order]>>]

FilterKeys == <<"category", "priceMin", "priceMax", "rating", "inStock", "tags">>

(* What the caller may give for each key of the filters object. *)
FilterChoices ==
    [category : {Absent, Str(""), Str("Electronics")},
     priceMin : {Absent, Null, Num(10)},
     priceMax : {Absent, Num(50)},
     rating : {Absent, Num(0), Num(4)},
     inStock : {Absent, Bool(FALSE), Bool(TRUE)},
     tags : {Absent, Arr(<<>>), Arr(<<"new">>)}]

RECURSIVE PropsOf(_, _)
PropsOf(choice, keys) ==
    IF keys = <<>> THEN <<>>
    ELSE (IF choice[Head(keys)] = Absent THEN <<>>
          ELSE <<Prop(Head(keys), choice[Head(keys)])>>)
         \o PropsOf(choice, Tail(keys))

Reverse(seq) == [k \in 1..Len(seq) |-> seq[Len(seq) + 1 - k]]

(* The filters objects: the keys in the order above, or in the reverse. *)
FilterObjects ==
    {Obj(PropsOf(c, FilterKeys)) : c \in FilterChoices}
        \cup {Obj(PropsOf(c, Reverse(FilterKeys))) : c \in FilterChoices}

\* The pages and page sizes a caller asks for, or leaves to the defaults.
Pages == {Undefined} \cup {Num(k) : k \in 1..MaxPage}
PageSizes == {Undefined, Num(1), Num(2), Num(10)}

\* The search types a caller gives: none, the four of the switch, and others.
SearchTypes ==
    {Undefined, Str("multi_match"), Str("match_phrase"), Str("wildcard"), Str("fuzzy"),
     Str("regex"), Str("MULTI_MATCH"), Null}

SearchBodies ==
    [query : {Str("wireless")},
     filters : {Undefined} \cup FilterObjects,
     page : Pages,
     size : PageSizes,
     sort : {Undefined},
     order : {Undefined},
     searchType : SearchTypes]

\* The request arrives and is compiled; the handler awaits the search.
SearchReceive ==
    /\ searchPc = "idle"
    /\ \E b \in SearchBodies :
        /\ searchBody' = b
        /\ searchQuery' = CompileSearch(b)
    /\ searchEndpoint' = "search"
    /\ searchPc' = "await"
    /\ UNCHANGED <<harnessVars, statsVars, apiVars, seedVars, searchReply, searchResponse>>

\* Math.ceil(total / size) for size > 0
TotalPages(total, size) == Ceil(total, size)

\* The search settles: the page of results, or the 500 of the catch block.
SearchSettle ==
    /\ searchEndpoint = "search"
    /\ searchPc = "await"
    /\ \E outcome \in ClientOutcomes("search", searchQuery) :
        LET result == ServiceSearch(outcome)
            p == SearchParams(searchBody)
        IN /\ searchReply' = outcome
           /\ searchResponse' =
            IF result.threw THEN [status |-> 500, error |-> result.message]
            ELSE [status |-> 200, total |-> result.value.hits, page |-> p.page,
                  size |-> p.size,
                  totalPages |-> TotalPages(result.value.hits, p.size),
                  searchType |-> p.searchType, took |-> result.value.took]
    /\ searchPc' = "done"
    /\ UNCHANGED <<harnessVars, statsVars, apiVars, seedVars, searchEndpoint, searchBody,
                 searchQuery>>

-----------------------------------------------------------------------------
(* POST /api/aggregations/complex: the filters of the aggregation query.   *)

\* const { category_filter, price_min, price_max, rating_min = 0 } = req.body
ComplexFilters(b) ==
    LET rating_min == Default(b.rating_min, Num(0))
    IN (IF Truthy(b.category_filter)
          THEN <<Clause("term", "category", b.category_filter)>> ELSE <<>>)
       \o (IF b.price_min # Undefined \/ b.price_max # Undefined
             THEN <<Clause("range", "price", PriceRange(b.price_min, b.price_max))>>
             ELSE <<>>)
       \o (IF rating_min.n > 0
             THEN <<Clause("range", "rating", Obj(<<Prop("gte", rating_min)>>))>>
             ELSE <<>>)

\* The aggregation query: a bool of the filters alone, the aggregations, size 0
CompileComplex(b) ==
    [query |-> [kind |-> "bool", must |-> <<>>, filter |-> ComplexFilters(b)],
     aggs |-> [categories |->
                  [terms |-> [field |-> "category", size |-> 10],
                   aggs |-> [price_ranges |->
                                <<[to |-> 100, key |-> "Budget"],
                                  [from |-> 100, to |-> 300, key |-> "Mid-range"],
                                  [from |-> 300, key |-> "Premium"]>>]],
              overall_stats |-> [stats |-> [field |-> "price"]]],
     size |-> 0]

ComplexBodies ==
    [category_filter : {Undefined, Str("Electronics")},
     price_min : {Undefined, Num(10)},
     price_max : {Undefined, Num(50)},
     rating_min : {Undefined, Num(0), Num(4)}]

ComplexReceive ==
    /\ searchPc = "idle"
    /\ \E b \in ComplexBodies :
        /\ searchBody' = b
        /\ searchQuery' = CompileComplex(b)
    /\ searchEndpoint' = "complex"
    /\ searchPc' = "await"
    /\ UNCHANGED <<harnessVars, statsVars, apiVars, seedVars, searchReply, searchResponse>>

ComplexSettle ==
    /\ searchEndpoint = "complex"
    /\ searchPc = "await"
    /\ \E outcome \in ClientOutcomes("search", searchQuery) :
        LET result == ServiceSearch(outcome)
        IN /\ searchReply' = outcome
           /\ searchResponse' =
            IF result.threw THEN [status |-> 500, error |-> result.message]
            ELSE [status |-> 200, total_documents |-> result.value.hits]
    /\ searchPc' = "done"
    /\ UNCHANGED <<harnessVars, statsVars, apiVars, seedVars, searchEndpoint, searchBody,
                 searchQuery>>

-----------------------------------------------------------------------------
(* GET /api/products: the listing.  The values of req.query are strings;   *)
(* a string of decimal digits is the sequence of its digits.               *)

Text(d) == [t |-> "text", d |-> d]

\* The number a string of digits denotes; 0 for the empty string.
RECURSIVE DigitsValue(_)
DigitsValue(d) ==
    IF d = <<>> THEN 0 ELSE 10 * DigitsValue(SubSeq(d, 1, Len(d) - 1)) + d[Len(d)]

\* ToNumber, as the operators - * / apply it: Number("") is 0
ToNumber(v) == IF v.t = "number" THEN v.n ELSE DigitsValue(v.d)

\* parseInt(v) for a number >= 0 or a string of digits: parseInt("") is NaN
ParseInt(v) ==
    LET d == IF v.t = "number" THEN Digits(v.n) ELSE v.d
    IN IF d = <<>> THEN NaN ELSE Whole(DigitsValue(d))

\* Math.ceil of a division result
MathCeil(v) == IF IsFinite(v) THEN Whole(Ceil(v.num, v.den)) ELSE v

\* A listing whose offset is page x size.
CompileProductsFromPage(q) ==
    LET page == Default(q.page, Num(1))
        size == Default(q.size, Num(10))
        from == ToNumber(page) * ToNumber(size)
    IN [query |-> [kind |-> "match_all"],
        from |-> ParseInt(Num(from)),
        size |-> ParseInt(size),
        sort |-> <<[field |-> Default(q.sort, Str("createdAt")).s,
                    order |-> Default(q.order, Str("desc")).s]>>]

\* const { page = 1, size = 10, sort, order } = req.query; from; query
CompileProducts(q) ==
    LET page == Default(q.page, Num(1))
        size == Default(q.size, Num(10))
        from == (ToNumber(page) - 1) * ToNumber(size)
    IN [query |-> [kind |-> "match_all"],
        from |-> ParseInt(Num(from)),
        size |-> ParseInt(size),
        sort |-> <<[field |-> Default(q.sort, Str("createdAt")).s,
                    order |-> Default(q.order, Str("desc")).s]>>]

\* req.query: ?page=..&size=.., either left out, size possibly given empty
ProductsQueries ==
    [page : {Undefined} \cup {Text(Digits(k)) : k \in 1..MaxPage},
     size : {Undefined, Text(<<>>), Text(<<1>>), Text(<<2>>), Text(<<1, 0>>)},
     sort : {Undefined},
     order : {Undefined}]

\* What the engine may answer to the listing: any number of documents, or an error.
ProductsOutcomes ==
    {Reply([SearchResponse EXCEPT !.hits = h]) : h \in 0..MaxTotal} \cup {EngineError}

ProductsReceive ==
    /\ searchPc = "idle"
    /\ \E q \in ProductsQueries :
        /\ searchBody' = q
        /\ searchQuery' = CompileProducts(q)
    /\ searchEndpoint' = "products"
    /\ searchPc' = "await"
    /\ UNCHANGED <<harnessVars, statsVars, apiVars, seedVars, searchReply, searchResponse>>

\* The listing settles: the page of products, or the 500 of the catch block.
ProductsSettle ==
    /\ searchEndpoint = "products"
    /\ searchPc = "await"
    /\ \E outcome \in ProductsOutcomes :
        LET result == ServiceSearch(outcome)
            page == Default(searchBody.page, Num(1))
            size == Default(searchBody.size, Num(10))
        IN /\ searchReply' = outcome
           /\ searchResponse' =
            IF result.threw THEN [status |-> 500, error |-> result.message]
            ELSE [status |-> 200, total |-> result.value.hits,
                  page |-> JSONNumber(ParseInt(page)),
                  size |-> JSONNumber(ParseInt(size)),
                  totalPages |-> JSONNumber(MathCeil(JSDiv(result.value.hits,
                                                           ToNumber(size))))]
    /\ searchPc' = "done"
    /\ UNCHANGED <<harnessVars, statsVars, apiVars, seedVars, searchEndpoint, searchBody,
                 searchQuery>>

SearchNext ==
    \/ SearchReceive
    \/ SearchSettle
    \/ ComplexReceive
    \/ ComplexSettle
    \/ ProductsReceive
    \/ ProductsSettle

InitSearch == HarnessInit /\ StatsIdle /\ SearchIdle /\ ApiIdle /\ SeedIdle

SpecSearch == InitSearch /\ [][SearchNext]_vars


-----------------------------------------------------------------------------
(* The aggregation endpoints.  An average the engine reports is a number   *)
(* of thousandths (4449 for 4.449), or null for a bucket without           *)
(* documents; a range boundary is a rational.                              *)

Milli(m) == [t |-> "number", milli |-> m]

(* The thousandths m for which the double of m/1000, times 100, falls just *)
(* below the half it stands for: 1.005 * 100 is 100.49999999999999.        *)
ProductBelowHalf == {145, 285, 565, 575, 1005, 1015, 1025, 1035, 1255, 1265, 1275}

\* Math.round(v * 100) / 100: null * 100 is 0; Math.round rounds a half up
RoundToHundredths(v) ==
    IF v = Null THEN Milli(0)
    ELSE IF v.milli \in ProductBelowHalf THEN Milli(10 * (v.milli \div 10))
    ELSE Milli(10 * ((v.milli + 5) \div 10))

\* A template literal of a prefix, a number, a separator and a number.
Template(prefix, a, sep, b) == [t |-> "string", s |-> <<prefix, a, sep, b>>]

\* One entry of a range aggregation's ranges.
Range(from, to, key) == [from |-> from, to |-> to, key |-> key]

-----------------------------------------------------------------------------
(* GET /api/aggregations/price-analysis.  The ranges parameter is a string *)
(* of comma-separated fields, here the sequence of its fields.             *)

Csv(fields) == [t |-> "csv", fields |-> fields]

\* '50,100,200,500'
DefaultRanges == Csv(<<Text(<<5, 0>>), Text(<<1, 0, 0>>), Text(<<2, 0, 0>>), Text(<<5, 0, 0>>)>>)

\* ranges.split(',').map(Number)
RangeValues(ranges) == [k \in 1..Len(ranges.fields) |-> ToNumber(ranges.fields[k])]

\* The buckets between adjacent breakpoints alone.
RECURSIVE InnerRanges(_, _)
InnerRanges(v, n) ==
    IF n <= 1 THEN <<>>
    ELSE Append(InnerRanges(v, n - 1),
                Range(Whole(v[n - 1]), Whole(v[n]),
                      Template("$", Digits(v[n - 1]), " - $", Digits(v[n]))))

\* A builder that leaves the bucket above the last breakpoint out.
PriceRangesWithoutOver(v) ==
    <<Range(NoNumber, Whole(v[1]), Template("Under $", Digits(v[1]), "", <<>>))>>
        \o InnerRanges(v, Len(v))

\* priceRanges: under the first value, between adjacent values, over the last
PriceRanges(v) ==
    <<Range(NoNumber, Whole(v[1]), Template("Under $", Digits(v[1]), "", <<>>))>>
        \o InnerRanges(v, Len(v))
        \o <<Range(Whole(v[Len(v)]), NoNumber,
                   Template("Over $", Digits(v[Len(v)]), "", <<>>))>>

CompilePriceAnalysis(q) ==
    [aggs |-> [price_ranges |->
                  [field |-> "price",
                   ranges |-> PriceRanges(RangeValues(Default(q.ranges, DefaultRanges)))],
               price_stats |-> [stats |-> [field |-> "price"]]],
     size |-> 0]

BreakpointVals == {50, 100, 200}

\* A field of the ranges parameter: a breakpoint in digits, or nothing.
BreakpointFields == {Text(<<>>)} \cup {Text(Digits(b)) : b \in BreakpointVals}

PriceAnalysisQueries ==
    [ranges : {Undefined}
                \cup {Csv(f) : f \in UNION {[1..n -> BreakpointFields] :
                                                n \in 1..MaxBreakpoints}}]

\* What the engine reports for one bucket: its documents, their average, those in stock.
BucketStats ==
    {[doc_count |-> 0, avg |-> Null, in_stock |-> 0],
     [doc_count |-> 2, avg |-> Milli(4449), in_stock |-> 1]}

PriceAverages == {Null, Milli(19999), Milli(1005)}

\* The engine's answer to a range aggregation: one bucket per range asked for,
\* and the statistics of all documents, without an average when there is none.
RangeReplies(ranges) ==
    LET Count(st) == Sum([k \in 1..Len(ranges) |-> st[k].doc_count])
    IN {Reply([t |-> "object",
               buckets |-> [k \in 1..Len(ranges) |->
                               [key |-> ranges[k].key, doc_count |-> c[1][k].doc_count,
                                avg |-> c[1][k].avg, in_stock |-> c[1][k].in_stock]],
               stats |-> [count |-> Count(c[1]), avg |-> c[2]]]) :
           c \in {d \in [1..Len(ranges) -> BucketStats] \X PriceAverages :
                     (d[2] = Null) <=> (Count(d[1]) = 0)}}

PriceAnalysisReceive ==
    /\ searchPc = "idle"
    /\ \E q \in PriceAnalysisQueries :
        /\ searchBody' = q
        /\ searchQuery' = CompilePriceAnalysis(q)
    /\ searchEndpoint' = "price-analysis"
    /\ searchPc' = "await"
    /\ UNCHANGED <<harnessVars, statsVars, apiVars, seedVars, searchReply, searchResponse>>

\* The shaped buckets and statistics, or the 500 of the catch block.
PriceAnalysisSettle ==
    /\ searchEndpoint = "price-analysis"
    /\ searchPc = "await"
    /\ \E outcome \in RangeReplies(searchQuery.aggs.price_ranges.ranges) \cup {EngineError} :
        LET result == ServiceSearch(outcome)
            buckets == result.value.buckets
        IN /\ searchReply' = outcome
           /\ searchResponse' =
            IF result.threw THEN [status |-> 500, error |-> result.message]
            ELSE [status |-> 200,
                  price_ranges |->
                      [k \in 1..Len(buckets) |->
                          [range |-> buckets[k].key, count |-> buckets[k].doc_count,
                           avg_rating |-> RoundToHundredths(buckets[k].avg),
                           in_stock_count |-> buckets[k].in_stock]],
                  price_statistics |->
                      [count |-> result.value.stats.count,
                       average |-> RoundToHundredths(result.value.stats.avg)]]
    /\ searchPc' = "done"
    /\ UNCHANGED <<harnessVars, statsVars, apiVars, seedVars, searchEndpoint, searchBody,
                 searchQuery>>

-----------------------------------------------------------------------------
(* The endpoints whose range aggregations are written out in the code.     *)

\* GET /api/search/facets: price_ranges, without keys
FacetPriceRanges ==
    <<Range(NoNumber, Whole(50), Undefined),
      Range(Whole(50), Whole(100), Undefined),
      Range(Whole(100), Whole(200), Undefined),
      Range(Whole(200), Whole(500), Undefined),
      Range(Whole(500), NoNumber, Undefined)>>

\* GET /api/search/facets: ratings, from 4.5 down, without keys
FacetRatingRanges ==
    <<Range(Fin(9, 2), NoNumber, Undefined),
      Range(Whole(4), Fin(9, 2), Undefined),
      Range(Whole(3), Whole(4), Undefined),
      Range(Whole(2), Whole(3), Undefined),
      Range(NoNumber, Whole(2), Undefined)>>

\* GET /api/analytics/price-distribution
PriceDistributionRanges ==
    <<Range(NoNumber, Whole(25), Str("Under $25")),
      Range(Whole(25), Whole(50), Str("$25 - $50")),
      Range(Whole(50), Whole(100), Str("$50 - $100")),
      Range(Whole(100), Whole(200), Str("$100 - $200")),
      Range(Whole(200), Whole(500), Str("$200 - $500")),
      Range(Whole(500), NoNumber, Str("Over $500"))>>

\* GET /api/analytics/rating-distribution
RatingDistributionRanges ==
    <<Range(NoNumber, Whole(1), Str("0 - 1")),
      Range(Whole(1), Whole(2), Str("1 - 2")),
      Range(Whole(2), Whole(3), Str("2 - 3")),
      Range(Whole(3), Whole(4), Str("3 - 4")),
      Range(Whole(4), Whole(5), Str("4 - 5"))>>

\* GET /api/analytics/search-analytics: price_ranges_searched, without keys
SearchAnalyticsRanges ==
    <<Range(NoNumber, Whole(50), Undefined),
      Range(Whole(50), Whole(100), Undefined),
      Range(Whole(100), Whole(200), Undefined),
      Range(Whole(200), NoNumber, Undefined)>>

\* The query of GET /facets: the aggregations, and the match on q if q is given
CompileFacets(q) ==
    [aggs |-> [price_ranges |-> [field |-> "price", ranges |-> FacetPriceRanges],
               ratings |-> [field |-> "rating", ranges |-> FacetRatingRanges]],
     size |-> 0,
     query |-> IF Truthy(q.q)
                 THEN [kind |-> "multi_match", query |-> q.q,
                       fields |-> <<"name^3", "description^2", "category", "tags">>]
                 ELSE [kind |-> "match_all"]]

FacetsQueries == [q : {Undefined, Str(""), Str("wireless")}]

\* The engine's buckets of a range aggregation: one per range, each empty or not.
BucketCounts(ranges) == [1..Len(ranges) -> {0, 2}]

FacetsReplies ==
    {Reply([t |-> "object", hits |-> EngineHits,
            price_ranges |-> p, ratings |-> r]) :
        p \in BucketCounts(FacetPriceRanges), r \in BucketCounts(FacetRatingRanges)}

FacetsReceive ==
    /\ searchPc = "idle"
    /\ \E q \in FacetsQueries :
        /\ searchBody' = q
        /\ searchQuery' = CompileFacets(q)
    /\ searchEndpoint' = "facets"
    /\ searchPc' = "await"
    /\ UNCHANGED <<harnessVars, statsVars, apiVars, seedVars, searchReply, searchResponse>>

\* The engine's buckets handed on as they are, or the 500 of the catch block.
FacetsSettle ==
    /\ searchEndpoint = "facets"
    /\ searchPc = "await"
    /\ \E outcome \in FacetsReplies \cup {EngineError} :
        LET result == ServiceSearch(outcome)
        IN /\ searchReply' = outcome
           /\ searchResponse' =
            IF result.threw THEN [status |-> 500, error |-> result.message]
            ELSE [status |-> 200, total |-> result.value.hits,
                  price_ranges |-> result.value.price_ranges,
                  ratings |-> result.value.ratings]
    /\ searchPc' = "done"
    /\ UNCHANGED <<harnessVars, statsVars, apiVars, seedVars, searchEndpoint, searchBody,
                 searchQuery>>

\* The buckets of a distribution, shaped: count, rounded average, stock count.
ShapedBuckets(buckets) ==
    [k \in 1..Len(buckets) |->
        [range |-> buckets[k].key, count |-> buckets[k].doc_count,
         average |-> RoundToHundredths(buckets[k].avg),
         in_stock_count |-> buckets[k].in_stock]]

\* GET /price-distribution and GET /rating-distribution: the range aggregation
CompileDistribution(field, ranges) ==
    [aggs |-> [ranges |-> [field |-> field, ranges |-> ranges]], size |-> 0]

PriceDistributionReceive ==
    /\ searchPc = "idle"
    /\ searchBody' = Obj(<<>>)
    /\ searchQuery' = CompileDistribution("price", PriceDistributionRanges)
    /\ searchEndpoint' = "price-distribution"
    /\ searchPc' = "await"
    /\ UNCHANGED <<harnessVars, statsVars, apiVars, seedVars, searchReply, searchResponse>>

\* The histogram, handed on as the engine gives it, is left out.
PriceDistributionSettle ==
    /\ searchEndpoint = "price-distribution"
    /\ searchPc = "await"
    /\ \E outcome \in RangeReplies(PriceDistributionRanges) \cup {EngineError} :
        LET result == ServiceSearch(outcome)
        IN /\ searchReply' = outcome
           /\ searchResponse' =
            IF result.threw THEN [status |-> 500, error |-> result.message]
            ELSE [status |-> 200, price_ranges |-> ShapedBuckets(result.value.buckets)]
    /\ searchPc' = "done"
    /\ UNCHANGED <<harnessVars, statsVars, apiVars, seedVars, searchEndpoint, searchBody,
                 searchQuery>>

RatingDistributionReceive ==
    /\ searchPc = "idle"
    /\ searchBody' = Obj(<<>>)
    /\ searchQuery' = CompileDistribution("rating", RatingDistributionRanges)
    /\ searchEndpoint' = "rating-distribution"
    /\ searchPc' = "await"
    /\ UNCHANGED <<harnessVars, statsVars, apiVars, seedVars, searchReply, searchResponse>>

\* The top_rated terms are left out.
RatingDistributionSettle ==
    /\ searchEndpoint = "rating-distribution"
    /\ searchPc = "await"
    /\ \E outcome \in RangeReplies(RatingDistributionRanges) \cup {EngineError} :
        LET result == ServiceSearch(outcome)
        IN /\ searchReply' = outcome
           /\ searchResponse' =
            IF result.threw THEN [status |-> 500, error |-> result.message]
            ELSE [status |-> 200, rating_ranges |-> ShapedBuckets(result.value.buckets)]
    /\ searchPc' = "done"
    /\ UNCHANGED <<harnessVars, statsVars, apiVars, seedVars, searchEndpoint, searchBody,
                 searchQuery>>

\* GET /search-analytics: the documents of the last days, and three aggregations
CompileSearchAnalytics(q) ==
    [query |-> [kind |-> "range", field |-> "createdAt",
                gte |-> <<"now-", Default(q.days, Num(7)), "d/d">>],
     aggs |-> [price_ranges_searched |->
                  [field |-> "price", ranges |-> SearchAnalyticsRanges]],
     size |-> 0]

SearchAnalyticsQueries == [days : {Undefined, Text(<<>>), Text(<<3>>)}]

SearchAnalyticsReplies ==
    {Reply([t |-> "object", hits |-> EngineHits, price_ranges_searched |-> p]) :
        p \in BucketCounts(SearchAnalyticsRanges)}

SearchAnalyticsReceive ==
    /\ searchPc = "idle"
    /\ \E q \in SearchAnalyticsQueries :
        /\ searchBody' = q
        /\ searchQuery' = CompileSearchAnalytics(q)
    /\ searchEndpoint' = "search-analytics"
    /\ searchPc' = "await"
    /\ UNCHANGED <<harnessVars, statsVars, apiVars, seedVars, searchReply, searchResponse>>

\* The two terms aggregations, handed on as the engine gives them, are left out.
SearchAnalyticsSettle ==
    /\ searchEndpoint = "search-analytics"
    /\ searchPc = "await"
    /\ \E outcome \in SearchAnalyticsReplies \cup {EngineError} :
        LET result == ServiceSearch(outcome)
        IN /\ searchReply' = outcome
           /\ searchResponse' =
            IF result.threw THEN [status |-> 500, error |-> result.message]
            ELSE [status |-> 200,
                  period_days |-> JSONNumber(ParseInt(Default(searchBody.days, Num(7)))),
                  total_searches |-> result.value.hits,
                  price_ranges_searched |-> result.value.price_ranges_searched]
    /\ searchPc' = "done"
    /\ UNCHANGED <<harnessVars, statsVars, apiVars, seedVars, searchEndpoint, searchBody,
                 searchQuery>>

-----------------------------------------------------------------------------
(* GET /api/analytics/categories, GET /api/aggregations/categories and     *)
(* GET /api/analytics/overview: the shaped averages and percentages.       *)

\* Math.round of a division result >= 0: the nearest integer, a half up
MathRound(v) ==
    IF IsFinite(v) THEN Whole((2 * v.num + v.den) \div (2 * v.den)) ELSE v

\* Math.round((in_stock / doc_count) * 100); the double product is the exact
\* one to within the rounding for every doc_count below 40
InStockPercentage(in_stock, doc_count) ==
    MathRound(JSTimes(JSDiv(in_stock, doc_count), 100))

\* buckets.map(bucket => ({category, count, avg_price, avg_rating, ...}))
ShapedCategories(buckets) ==
    [k \in 1..Len(buckets) |->
        [category |-> buckets[k].key, count |-> buckets[k].doc_count,
         avg_price |-> RoundToHundredths(buckets[k].avg_price),
         avg_rating |-> RoundToHundredths(buckets[k].avg_rating),
         in_stock_count |-> buckets[k].in_stock,
         in_stock_percentage |->
            JSONNumber(InStockPercentage(buckets[k].in_stock, buckets[k].doc_count))]]

\* The terms aggregation on category with its sub-aggregations.
CompileCategories(q, defaultSize) ==
    [aggs |-> [categories |->
                  [terms |-> [field |-> "category",
                              size |-> ParseInt(Default(q.size, Num(defaultSize)))]]],
     size |-> 0]

CategoriesQueries == [size : {Undefined, Text(<<5>>)}]

RatingAverages == {Null, Milli(4449), Milli(4450)}

\* What the engine reports for one category: an empty bucket has no averages.
CategoryStats ==
    {[doc_count |-> 0, in_stock |-> 0, avg_price |-> Null, avg_rating |-> Null]}
        \cup {[doc_count |-> n, in_stock |-> k, avg_price |-> a[1], avg_rating |-> a[2]] :
                 n \in 1..MaxDocs, k \in 0..MaxDocs,
                 a \in {<<Milli(19999), Milli(4449)>>, <<Milli(1005), Milli(4450)>>}}

\* The engine's answer: some category buckets, no more in stock than there are.
CategoriesReplies ==
    {Reply([t |-> "object",
            buckets |-> [k \in 1..Len(st) |->
                            [key |-> k, doc_count |-> st[k].doc_count,
                             in_stock |-> st[k].in_stock, avg_price |-> st[k].avg_price,
                             avg_rating |-> st[k].avg_rating]]]) :
        st \in UNION {[1..n -> {c \in CategoryStats : c.in_stock <= c.doc_count}] :
                        n \in 0..MaxBuckets}}

AnalyticsCategoriesReceive ==
    /\ searchPc = "idle"
    /\ \E q \in CategoriesQueries :
        /\ searchBody' = q
        /\ searchQuery' = CompileCategories(q, 20)
    /\ searchEndpoint' = "analytics-categories"
    /\ searchPc' = "await"
    /\ UNCHANGED <<harnessVars, statsVars, apiVars, seedVars, searchReply, searchResponse>>

AnalyticsCategoriesSettle ==
    /\ searchEndpoint = "analytics-categories"
    /\ searchPc = "await"
    /\ \E outcome \in CategoriesReplies \cup {EngineError} :
        LET result == ServiceSearch(outcome)
        IN /\ searchReply' = outcome
           /\ searchResponse' =
            IF result.threw THEN [status |-> 500, error |-> result.message]
            ELSE [status |-> 200, categories |-> ShapedCategories(result.value.buckets)]
    /\ searchPc' = "done"
    /\ UNCHANGED <<harnessVars, statsVars, apiVars, seedVars, searchEndpoint, searchBody,
                 searchQuery>>

AggregationsCategoriesReceive ==
    /\ searchPc = "idle"
    /\ \E q \in CategoriesQueries :
        /\ searchBody' = q
        /\ searchQuery' = CompileCategories(q, 10)
    /\ searchEndpoint' = "aggregations-categories"
    /\ searchPc' = "await"
    /\ UNCHANGED <<harnessVars, statsVars, apiVars, seedVars, searchReply, searchResponse>>

\* execution_time and the minimum and maximum price, handed on, are left out.
AggregationsCategoriesSettle ==
    /\ searchEndpoint = "aggregations-categories"
    /\ searchPc = "await"
    /\ \E outcome \in CategoriesReplies \cup {EngineError} :
        LET result == ServiceSearch(outcome)
        IN /\ searchReply' = outcome
           /\ searchResponse' =
            IF result.threw THEN [status |-> 500, error |-> result.message]
            ELSE [status |-> 200, categories |-> ShapedCategories(result.value.buckets)]
    /\ searchPc' = "done"
    /\ UNCHANGED <<harnessVars, statsVars, apiVars, seedVars, searchEndpoint, searchBody,
                 searchQuery>>

OverviewReplies ==
    {Reply([t |-> "object", total_products |-> n, avg_price |-> p, avg_rating |-> r]) :
        n \in {EngineHits}, p \in PriceAverages \ {Null}, r \in RatingAverages \ {Null}}
    \cup {Reply([t |-> "object", total_products |-> 0, avg_price |-> Null,
                 avg_rating |-> Null])}

OverviewReceive ==
    /\ searchPc = "idle"
    /\ searchBody' = Obj(<<>>)
    /\ searchQuery' = [aggs |-> <<"total_products", "avg_price", "min_price", "max_price",
                                  "avg_rating", "in_stock_count", "out_of_stock_count">>,
                       size |-> 0]
    /\ searchEndpoint' = "overview"
    /\ searchPc' = "await"
    /\ UNCHANGED <<harnessVars, statsVars, apiVars, seedVars, searchReply, searchResponse>>

\* The minimum, the maximum and the stock counts, handed on, are left out.
OverviewSettle ==
    /\ searchEndpoint = "overview"
    /\ searchPc = "await"
    /\ \E outcome \in OverviewReplies \cup {EngineError} :
        LET result == ServiceSearch(outcome)
        IN /\ searchReply' = outcome
           /\ searchResponse' =
            IF result.threw THEN [status |-> 500, error |-> result.message]
            ELSE [status |-> 200, total_products |-> result.value.total_products,
                  average |-> RoundToHundredths(result.value.avg_price),
                  average_rating |-> RoundToHundredths(result.value.avg_rating)]
    /\ searchPc' = "done"
    /\ UNCHANGED <<harnessVars, statsVars, apiVars, seedVars, searchEndpoint, searchBody,
                 searchQuery>>

AggsNext ==
    \/ PriceAnalysisReceive
    \/ PriceAnalysisSettle
    \/ FacetsReceive
    \/ FacetsSettle
    \/ PriceDistributionReceive
    \/ PriceDistributionSettle
    \/ RatingDistributionReceive
    \/ RatingDistributionSettle
    \/ SearchAnalyticsReceive
    \/ SearchAnalyticsSettle
    \/ AnalyticsCategoriesReceive
    \/ AnalyticsCategoriesSettle
    \/ AggregationsCategoriesReceive
    \/ AggregationsCategoriesSettle
    \/ OverviewReceive
    \/ OverviewSettle

InitAggs == HarnessInit /\ StatsIdle /\ SearchIdle /\ ApiIdle /\ SeedIdle

SpecAggs == InitAggs /\ [][AggsNext]_vars

-----------------------------------------------------------------------------
(* Properties of the load-test and benchmark runs.                         *)

LoadTestRuns == endpoint = "loadtest" /\ params.queries.t = "array"
                    /\ Len(params.queries.a) > 0
LoadTestDone == LoadTestRuns /\ pc = "done"
BenchmarkDone == endpoint = "benchmark" /\ pc = "done"

NumQueries == Len(params.queries.a)
EntriesSoFar == Flatten(results) \o iterationResults
InFlight == Len(issued) - Len(settled)

Failed(s) == s.result.threw
Succeeded(s) == ~s.result.threw /\ s.result.value # Null

\* The entry agrees with the settled call it was written for.
EntryReports(e, s) ==
    /\ "duration" \in DOMAIN e
    /\ e.duration = s.endTime - s.call.start
    /\ Failed(s) =>
        /\ e.success = FALSE
        /\ "error" \in DOMAIN e
        /\ e.error = s.result.message
        /\ "hits" \notin DOMAIN e
    /\ Succeeded(s) =>
        /\ e.success = TRUE
        /\ {"hits", "took"} \subseteq DOMAIN e
        /\ "error" \notin DOMAIN e
        /\ s.call.op = "search" => e.hits = EngineHits /\ e.took = EngineTook

(* C1: in a load-test run with a non-empty query list, a failing call      *)
(* never aborts the run.  While the run goes on every settled call has     *)
(* its entry, a failed call's entry has success = false, the error message *)
(* and a duration and no hit count, a successful call's entry has success  *)
(* = true, a duration, the hit count and the took time; the run waits only *)
(* on a call that is outstanding; and the run ends with status 200, n      *)
(* iteration records of one entry per query each, every query of every     *)
(* iteration having been executed.                                         *)
C1_FailedCallNeverAbortsRun ==
    LoadTestRuns =>
        /\ Len(EntriesSoFar) = Len(settled)
        /\ \A m \in 1..Len(settled) : EntryReports(EntriesSoFar[m], settled[m])
        /\ pc = "await" => outstanding # {}
        /\ pc = "done" =>
            /\ response.status = 200
            /\ Len(response.results) = params.iterations
            /\ \A k \in 1..Len(response.results) :
                Len(response.results[k].queries) = NumQueries
            /\ Len(issued) = params.iterations * NumQueries
            /\ \A m \in 1..Len(issued) :
                /\ issued[m].iteration = ((m - 1) \div NumQueries) + 1
                /\ issued[m].position = ((m - 1) % NumQueries) + 1

\* A finished run of two iterations in which a call failed and a later one succeeded.
C1_Witness ==
    /\ LoadTestDone
    /\ params.iterations = 2
    /\ NumQueries >= 2
    /\ Failed(settled[1])
    /\ Succeeded(settled[2])
    /\ Failed(settled[NumQueries + 1])

(* C2: in the load-test output the k-th iteration record is numbered k,    *)
(* and within every record the j-th entry holds the j-th query of the      *)
(* input list and the outcome of the call issued for that iteration and    *)
(* position.                                                               *)
C2_ResultsAttributedToOrigin ==
    LoadTestRuns =>
        /\ \A k \in 1..Len(results) :
            /\ results[k].iteration = k
            /\ Len(results[k].queries) = NumQueries
            /\ \A j \in 1..NumQueries :
                LET e == results[k].queries[j]
                    s == settled[(k - 1) * NumQueries + j]
                IN /\ e.query = params.queries.a[j]
                   /\ s.call.iteration = k
                   /\ s.call.position = j
                   /\ e.duration = s.endTime - s.call.start
                   /\ e.success = Succeeded(s)
        /\ pc = "done" => response.results = results

\* A finished run with two iteration records of several entries each.
C2_Witness ==
    /\ LoadTestDone
    /\ Len(response.results) = 2
    /\ NumQueries = 3
    /\ response.results[2].queries[3].success
    /\ ~response.results[1].queries[3].success

(* C3: the load-test harness supports a concurrency bound: in a run with   *)
(* concurrent = N > 1, while a call is outstanding, fewer than N calls are *)
(* in flight and calls remain to be issued, the harness may issue the next *)
(* call, so that more than one call is in flight.                          *)
C3_ConcurrentCallsMayBeInFlight ==
    (/\ LoadTestRuns
     /\ body.concurrent # Undefined
     /\ params.concurrent > 1
     /\ outstanding # {}
     /\ Cardinality(outstanding) < params.concurrent
     /\ Len(issued) < params.iterations * NumQueries)
        => ENABLED LoadTestIssue

(* C4: at every point of a load-test or benchmark run at most one engine   *)
(* call is issued and not yet settled, which never exceeds the concurrency *)
(* bound of a load-test (the caller's, or the default).                    *)
C4_AtMostOneCallInFlight ==
    /\ InFlight <= 1
    /\ Cardinality(outstanding) = InFlight
    /\ LoadTestRuns => InFlight <= params.concurrent

\* A run that names no bound has its second call in flight, the first settled.
C4_Witness ==
    /\ LoadTestRuns
    /\ body.concurrent = Undefined
    /\ Len(settled) = 1
    /\ Cardinality(outstanding) = 1

SuccessCount == Cardinality({m \in 1..Len(settled) : Succeeded(settled[m])})

\* v rounded to two decimals, in hundredths (round half up)
Hundredths(v) == (2 * 100 * v.num + v.den) \div (2 * v.den)

QueryTwoAlwaysFails ==
    \A m \in 1..Len(settled) :
        IF settled[m].call.position = 2 THEN Failed(settled[m])
        ELSE Succeeded(settled[m])

StatisticsDefined(st) ==
    \A f \in DOMAIN st : f \in {"totalQueries", "successfulQueries", "failedQueries"}
                            \/ IsFinite(st[f])

(* C5: for every load-test run with at least one attempted call,           *)
(* statistics.successRate is 100 x successful calls / attempted calls: 3   *)
(* queries x 2 iterations with query 2 always failing give 200/3, which is *)
(* 66.67 to two decimals, and a run in which every call fails gives 0 in a *)
(* response of status 200 whose statistics are all defined numbers.        *)
C5_SuccessRate ==
    (LoadTestDone /\ Len(settled) > 0) =>
        LET rate == response.statistics.successRate
        IN /\ response.status = 200
           /\ IsFinite(rate)
           /\ rate.num * Len(settled) = 100 * SuccessCount * rate.den
           /\ (NumQueries = 3 /\ params.iterations = 2 /\ QueryTwoAlwaysFails) =>
                rate = Fin(200, 3) /\ Hundredths(rate) = 6667
           /\ SuccessCount = 0 =>
                rate = Whole(0) /\ StatisticsDefined(response.statistics)

\* The finished run of 3 queries x 2 iterations in which query 2 always failed.
C5_Witness ==
    /\ LoadTestDone
    /\ NumQueries = 3
    /\ params.iterations = 2
    /\ QueryTwoAlwaysFails

NotANumber(v) == ~IsFinite(v)

(* C6 as stated: a load-test or benchmark run with zero successful calls   *)
(* responds normally with undefined mean, min and max durations.           *)
C6_ZeroSuccessesUndefinedEverywhere ==
    /\ (LoadTestDone /\ SuccessCount = 0) =>
        /\ response.status = 200
        /\ NotANumber(response.statistics.averageDuration)
        /\ NotANumber(response.statistics.minDuration)
        /\ NotANumber(response.statistics.maxDuration)
    /\ (BenchmarkDone /\ SuccessCount = 0) =>
        /\ response.status = 200
        /\ NotANumber(response.summary.averageDuration)
        /\ NotANumber(response.summary.minDuration)
        /\ NotANumber(response.summary.maxDuration)

SettledDurations == [m \in 1..Len(settled) |-> settled[m].endTime - settled[m].call.start]

(* C6, amended: a standard benchmark run with zero successful calls        *)
(* responds normally with averageDuration NaN, minDuration Infinity and    *)
(* maxDuration -Infinity, each of which JSON writes as null; a load-test   *)
(* run takes mean, min and max over the durations of all attempted calls,  *)
(* so with zero successful calls among at least one attempted call they    *)
(* are defined numbers, and the run responds normally.                     *)
C6_ZeroSuccessesUndefinedInBenchmark ==
    /\ (BenchmarkDone /\ SuccessCount = 0) =>
        /\ response.status = 200
        /\ response.summary.averageDuration = NaN
        /\ response.summary.minDuration = PosInfinity
        /\ response.summary.maxDuration = NegInfinity
        /\ \A f \in {"averageDuration", "minDuration", "maxDuration"} :
            JSONNumber(response.summary[f]) = Null
    /\ (LoadTestDone /\ SuccessCount = 0 /\ Len(settled) > 0) =>
        LET st == response.statistics
        IN /\ response.status = 200
           /\ IsFinite(st.averageDuration)
           /\ st.averageDuration.num * Len(settled)
                = Sum(SettledDurations) * st.averageDuration.den
           /\ st.minDuration = Whole(SeqMin(SettledDurations))
           /\ st.maxDuration = Whole(SeqMax(SettledDurations))

\* The benchmark has finished and every one of its tests failed.
C6_Witness ==
    /\ BenchmarkDone
    /\ Len(settled) = Len(BenchmarkTests)
    /\ SuccessCount = 0

-----------------------------------------------------------------------------
(* Properties of the statistics.                                           *)

PercentileDone == statsPc = "done" /\ statistics.call = "calculatePercentile"
StatisticsDone == statsPc = "done" /\ statistics.call = "statistics"

\* How many elements of arr satisfy x < bound, and x <= bound.
CountBelow(arr, bound) == Cardinality({k \in 1..Len(arr) : arr[k] < bound})
CountUpTo(arr, bound) == Cardinality({k \in 1..Len(arr) : arr[k] <= bound})

\* The nearest rank of percentile p among n values: the least c with c >= p/100 * n.
NearestRank(p, n) == CHOOSE c \in 0..n : 100 * c >= p * n /\ 100 * (c - 1) < p * n

\* x is the element at 0-based index idx of arr sorted ascending numerically.
IsSortedElementAt(arr, idx, x) ==
    /\ \E k \in 1..Len(arr) : arr[k] = x
    /\ CountBelow(arr, x) <= idx
    /\ idx < CountUpTo(arr, x)

(* C7: for every non-empty list of n durations and every p in {50, 90, 95, *)
(* 99}, calculatePercentile returns the element at 0-based index           *)
(* ceil(p/100 * n) - 1 of the list sorted ascending numerically: an        *)
(* element of the list, never a value between two of them.                 *)
C7_NearestRankPercentile ==
    (PercentileDone /\ givenDurations # <<>>) =>
        /\ IsFinite(statistics.value)
        /\ statistics.value.den = 1
        /\ IsSortedElementAt(givenDurations,
                             NearestRank(statistics.percentile, Len(givenDurations)) - 1,
                             statistics.value.num)

\* The 90th percentile of three distinct durations given in descending order.
C7_Witness ==
    /\ PercentileDone
    /\ statistics.percentile = 90
    /\ givenDurations = <<10, 7, 2>>
    /\ statistics.value = Whole(10)

Rearrangements(n) == {f \in [1..n -> 1..n] : \A a, b \in 1..n : f[a] = f[b] => a = b}
Permuted(arr, f) == [k \in 1..Len(arr) |-> arr[f[k]]]

(* C8: the statistics are the same for every permutation of the duration   *)
(* list (count, mean, min, max and the four percentiles), and computing a  *)
(* percentile leaves the caller's list as it was, the same elements in the *)
(* same order.                                                             *)
C8_StatisticsPermutationInvariant ==
    statsPc = "done" =>
        /\ allDurations = givenDurations
        /\ \A f \in Rearrangements(Len(givenDurations)) :
            LET shuffled == Permuted(givenDurations, f)
            IN /\ PercentileDone =>
                    calculatePercentile(shuffled, statistics.percentile).value
                        = statistics.value
               /\ StatisticsDone =>
                    LoadTestStatistics(shuffled, statistics.successful).stats
                        = statistics.stats

\* The statistics of a list that was not given in ascending order.
C8_Witness ==
    /\ StatisticsDone
    /\ givenDurations = <<10, 2, 7, 2>>
    /\ allDurations = <<10, 2, 7, 2>>
    /\ statistics.stats.p50Duration = Whole(2)
    /\ statistics.stats.p99Duration = Whole(10)

-----------------------------------------------------------------------------
(* Properties of the filter clause builder.                                *)

SearchCompiled == searchEndpoint = "search" /\ searchPc # "idle"
ComplexCompiled == searchEndpoint = "complex" /\ searchPc # "idle"

\* The filter clauses of the compiled query.
CompiledFilters ==
    IF searchQuery.query.kind = "bool" THEN searchQuery.query.filter ELSE <<>>

HasKey(obj, key) == \E k \in 1..Len(obj.o) : obj.o[k].key = key

GivenFilters == SearchParams(searchBody).filters

(* The fields of the FilterSet the caller supplied: a rating floor, a      *)
(* stock flag and a price bound count whatever their value (0, false,      *)
(* null); a category counts when it is a non-empty string and the tags     *)
(* when the set is not empty.                                              *)
PresentFields ==
    {f \in {"category", "price", "rating", "inStock", "tags"} :
        CASE f = "category" -> HasKey(GivenFilters, "category")
                                 /\ Get(GivenFilters, "category") # Str("")
          [] f = "price" -> HasKey(GivenFilters, "priceMin")
                              \/ HasKey(GivenFilters, "priceMax")
          [] f = "rating" -> HasKey(GivenFilters, "rating")
          [] f = "inStock" -> HasKey(GivenFilters, "inStock")
          [] f = "tags" -> HasKey(GivenFilters, "tags")
                             /\ Get(GivenFilters, "tags") # Arr(<<>>)}

ClauseFields == {CompiledFilters[k].field : k \in 1..Len(CompiledFilters)}

(* C9: for every FilterSet with k present fields the filter clause builder *)
(* of POST /api/search produces exactly k clauses, one per present field   *)
(* and none for an absent field, for every supplied value, a rating floor  *)
(* of 0, inStock = false and a null price bound included.                  *)
C9_OneClausePerPresentField ==
    SearchCompiled =>
        /\ Len(CompiledFilters) = Cardinality(PresentFields)
        /\ ClauseFields = PresentFields

FieldRank(f) ==
    CASE f = "category" -> 1
      [] f = "price" -> 2
      [] f = "rating" -> 3
      [] f = "inStock" -> 4
      [] f = "tags" -> 5

KindOfField(f) ==
    CASE f \in {"category", "inStock"} -> "term"
      [] f \in {"price", "rating"} -> "range"
      [] f = "tags" -> "terms"

\* The caller's price bounds and rating floor, of either endpoint.
GivenPriceMin ==
    IF searchEndpoint = "search" THEN Get(GivenFilters, "priceMin") ELSE searchBody.price_min
GivenPriceMax ==
    IF searchEndpoint = "search" THEN Get(GivenFilters, "priceMax") ELSE searchBody.price_max
GivenRating ==
    IF searchEndpoint = "search" THEN Get(GivenFilters, "rating") ELSE searchBody.rating_min

\* The same request with the keys of its filters object in the reverse order.
WithFiltersReversed(b) ==
    IF b.filters = Undefined THEN b
    ELSE [b EXCEPT !.filters = Obj(Reverse(b.filters.o))]

(* C10: the filter clauses of POST /api/search and of POST /complex come   *)
(* in the fixed order category term, price range, rating range, stock      *)
(* term, tags terms, whatever the order of the keys in the caller's        *)
(* filters object; the price clause carries gte exactly when priceMin is   *)
(* given and lte exactly when priceMax is given, with the caller's values, *)
(* and the rating clause is a gte range on the given floor.                *)
C10_FilterClausesInFixedOrder ==
    (SearchCompiled \/ ComplexCompiled) =>
        /\ \A a, b \in 1..Len(CompiledFilters) :
            a < b => FieldRank(CompiledFilters[a].field)
                        < FieldRank(CompiledFilters[b].field)
        /\ \A k \in 1..Len(CompiledFilters) :
            LET c == CompiledFilters[k]
            IN /\ c.kind = KindOfField(c.field)
               /\ c.field = "price" =>
                    /\ HasKey(c.value, "gte") <=> GivenPriceMin # Undefined
                    /\ HasKey(c.value, "lte") <=> GivenPriceMax # Undefined
                    /\ Get(c.value, "gte") = GivenPriceMin
                    /\ Get(c.value, "lte") = GivenPriceMax
               /\ c.field = "rating" =>
                    c.value = Obj(<<Prop("gte", GivenRating)>>)
        /\ SearchCompiled =>
            CompileSearch(WithFiltersReversed(searchBody)).query = searchQuery.query

\* Five filters given from tags to category, compiled from category to tags.
C10_Witness ==
    /\ SearchCompiled
    /\ searchBody.filters # Undefined
    /\ Keys(searchBody.filters)
         = <<"tags", "inStock", "rating", "priceMax", "priceMin", "category">>
    /\ [k \in 1..Len(CompiledFilters) |-> CompiledFilters[k].field]
         = <<"category", "price", "rating", "inStock", "tags">>
    /\ Keys(CompiledFilters[2].value) = <<"gte", "lte">>

-----------------------------------------------------------------------------
(* Properties of the compiled search request.                              *)

GivenSearch == SearchParams(searchBody)
GivenPrimary == PrimaryMatch(GivenSearch.searchType, GivenSearch.query)

(* C11: in POST /api/search, when the filter clause sequence is not empty  *)
(* the compiled query is a boolean node whose must holds the primary match *)
(* alone and whose filter is the clause sequence; when it is empty (no     *)
(* filters, or only fields that yield no clause) the compiled query is the *)
(* primary match itself, not a boolean node.  "wireless", multi_match,     *)
(* {category: "Electronics"}, page 1, size 10 compiles to the boolean node *)
(* of the multi_match and the one category term, from 0, size 10.          *)
C11_BoolWrapperIffFilterClauses ==
    SearchCompiled =>
        LET clauses == FilterQueries(GivenSearch.filters)
        IN /\ clauses # <<>> =>
                searchQuery.query
                    = [kind |-> "bool", must |-> <<GivenPrimary>>, filter |-> clauses]
           /\ clauses = <<>> =>
                /\ searchQuery.query = GivenPrimary
                /\ searchQuery.query.kind # "bool"
           /\ (/\ searchBody.query = Str("wireless")
               /\ GivenSearch.searchType = Str("multi_match")
               /\ GivenSearch.filters = Obj(<<Prop("category", Str("Electronics"))>>)
               /\ GivenSearch.page = 1
               /\ GivenSearch.size = 10) =>
                /\ searchQuery.query.kind = "bool"
                /\ Len(searchQuery.query.must) = 1
                /\ searchQuery.query.must[1].kind = "multi_match"
                /\ searchQuery.query.must[1].query = Str("wireless")
                /\ searchQuery.query.filter
                     = <<Clause("term", "category", Str("Electronics"))>>
                /\ searchQuery.from = 0
                /\ searchQuery.size = 10

\* "wireless", multi_match, {category: "Electronics"}, page 1, size 10, compiled.
C11_Witness ==
    /\ SearchCompiled
    /\ searchBody.query = Str("wireless")
    /\ searchBody.searchType = Str("multi_match")
    /\ searchBody.filters = Obj(<<Prop("category", Str("Electronics"))>>)
    /\ searchBody.page = Num(1)
    /\ searchBody.size = Num(10)
    /\ searchQuery.query.kind = "bool"
    /\ Len(searchQuery.query.filter) = 1

ProductsCompiled == searchEndpoint = "products" /\ searchPc # "idle"

\* The page and the page size the caller asked for, as numbers.
AskedPage ==
    IF searchEndpoint = "search" THEN GivenSearch.page
    ELSE IF searchBody.page = Undefined THEN 1
    ELSE CHOOSE k \in 1..(MaxPage + 1) : Digits(k) = searchBody.page.d
AskedPageSize ==
    IF searchEndpoint = "search" THEN GivenSearch.size
    ELSE IF searchBody.size = Undefined THEN 10
    ELSE IF searchBody.size.d = <<>> THEN 0
    ELSE CHOOSE k \in 1..10 : Digits(k) = searchBody.size.d

\* k = ceil(total / size): the least number of pages of that size that hold total
IsCeilingOf(k, total, size) == k * size >= total /\ (k - 1) * size < total

(* C12: for every page >= 1 and page size >= 1 the query compiled by POST  *)
(* /api/search and by GET /api/products has from = (page - 1) x pageSize,  *)
(* which is >= 0 and a multiple of pageSize, and size = pageSize, and the  *)
(* response reports totalPages = ceil(total / pageSize).                   *)
C12_Pagination ==
    ((SearchCompiled \/ ProductsCompiled) /\ AskedPage >= 1 /\ AskedPageSize >= 1) =>
        LET from == IF SearchCompiled THEN Whole(searchQuery.from) ELSE searchQuery.from
            size == IF SearchCompiled THEN Whole(searchQuery.size) ELSE searchQuery.size
            pages == IF SearchCompiled THEN Whole(searchResponse.totalPages)
                     ELSE searchResponse.totalPages
        IN /\ from = Whole((AskedPage - 1) * AskedPageSize)
           /\ from.num >= 0
           /\ from.num % AskedPageSize = 0
           /\ size = Whole(AskedPageSize)
           /\ (searchPc = "done" /\ searchResponse.status = 200) =>
                /\ IsFinite(pages) /\ pages.den = 1
                /\ IsCeilingOf(pages.num, searchResponse.total, AskedPageSize)

\* Page 3 of a listing of 3 documents by pages of 2: from 4, two pages in all.
C12_Witness ==
    /\ ProductsCompiled
    /\ searchPc = "done"
    /\ searchResponse.status = 200
    /\ searchBody.page = Text(<<3>>)
    /\ searchBody.size = Text(<<2>>)
    /\ searchQuery.from = Whole(4)
    /\ searchResponse.total = 3
    /\ searchResponse.totalPages = Whole(2)

-----------------------------------------------------------------------------
(* Properties of the search-type dispatch.                                 *)

\* The primary match of the compiled query, inside its boolean node or bare.
CompiledPrimary ==
    IF searchQuery.query.kind = "bool" THEN searchQuery.query.must[1]
    ELSE searchQuery.query

RecognizedTypes ==
    {Str("multi_match"), Str("match_phrase"), Str("wildcard"), Str("fuzzy")}

TextClauses == {"multi_match", "match_phrase", "wildcard", "fuzzy"}

(* C13: the search-type dispatch of POST /api/search is closed.  Each of   *)
(* the four recognized types compiles to its own clause: multi_match over  *)
(* name, description, category and tags, match_phrase on name, wildcard on *)
(* name, fuzzy on name.  Every other value that is given compiles to       *)
(* match_all, never to one of the four text clauses, and raises no error:  *)
(* the request reaches the engine and only the engine's error gives a 500. *)
C13_SearchTypeDispatchClosed ==
    SearchCompiled =>
        LET given == searchBody.searchType
            primary == CompiledPrimary
        IN /\ given = Str("multi_match") =>
                /\ primary.kind = "multi_match"
                /\ primary.fields = <<"name^3", "description^2", "category", "tags">>
                /\ primary.query = searchBody.query
           /\ given = Str("match_phrase") =>
                /\ primary.kind = "match_phrase"
                /\ primary.field = "name"
                /\ primary.query = searchBody.query
           /\ given = Str("wildcard") =>
                /\ primary.kind = "wildcard"
                /\ primary.field = "name"
           /\ given = Str("fuzzy") =>
                /\ primary.kind = "fuzzy"
                /\ primary.field = "name"
                /\ primary.value = searchBody.query
           /\ (given # Undefined /\ given \notin RecognizedTypes) =>
                /\ primary = [kind |-> "match_all"]
                /\ primary.kind \notin TextClauses
                /\ (searchPc = "done" /\ searchResponse.status = 500) =>
                        searchResponse.error = EngineError.message

\* "MULTI_MATCH" is none of the case labels: match_all, answered with a page.
C13_Witness ==
    /\ SearchCompiled
    /\ searchBody.searchType = Str("MULTI_MATCH")
    /\ CompiledPrimary.kind = "match_all"
    /\ searchPc = "done"
    /\ searchResponse.status = 200

(* C14 as stated: when the search type is omitted, the primary match       *)
(* compiled by POST /api/search is match_all.                              *)
C14_OmittedTypeIsMatchAll ==
    (SearchCompiled /\ searchBody.searchType = Undefined) =>
        CompiledPrimary.kind = "match_all"

(* C14, amended: when the search type is omitted, the primary match        *)
(* compiled by POST /api/search is the multi_match of the request's text   *)
(* over name, description, category and tags, the declared default;        *)
(* match_all is compiled only for a search type that is given and is none  *)
(* of the four recognized types.                                           *)
C14_OmittedTypeIsMultiMatch ==
    SearchCompiled =>
        /\ searchBody.searchType = Undefined =>
                /\ CompiledPrimary.kind = "multi_match"
                /\ CompiledPrimary.query = searchBody.query
                /\ CompiledPrimary.fields
                     = <<"name^3", "description^2", "category", "tags">>
        /\ CompiledPrimary.kind = "match_all" =>
                /\ searchBody.searchType # Undefined
                /\ searchBody.searchType \notin RecognizedTypes

\* A request without a search type, compiled to a multi_match.
C14_Witness ==
    /\ SearchCompiled
    /\ searchBody.searchType = Undefined
    /\ searchBody.filters = Undefined
    /\ searchQuery.query.kind = "multi_match"

-----------------------------------------------------------------------------
(* Properties of the price-analysis bucket builder.                        *)

PriceAnalysisCompiled == searchEndpoint = "price-analysis" /\ searchPc # "idle"

\* The number a field of the ranges parameter denotes.
Denoted(field) ==
    IF field.d = <<>> THEN 0
    ELSE CHOOSE b \in BreakpointVals \cup {500} : Digits(b) = field.d

\* The breakpoints the caller gave, or the default ones.
Breakpoints ==
    LET given == IF searchBody.ranges = Undefined THEN DefaultRanges ELSE searchBody.ranges
    IN [k \in 1..Len(given.fields) |-> Denoted(given.fields[k])]

StrictlyIncreasing(b) == \A k \in 1..(Len(b) - 1) : b[k] < b[k + 1]

BuiltRanges == searchQuery.aggs.price_ranges.ranges

DistinctKeys(r) == \A a, b \in 1..Len(r) : a # b => r[a].key # r[b].key

(* C15: for every strictly increasing list b1 < ... < bn (n >= 1) given to *)
(* GET /api/aggregations/price-analysis the builder produces exactly n + 1 *)
(* buckets: {to: b1}, then {from: b(i), to: b(i+1)} for each adjacent pair *)
(* in order, then {from: bn}; the keys are pairwise distinct, the first is *)
(* "Under $b1" and the last "Over $bn".                                    *)
C15_BucketsOfIncreasingBreakpoints ==
    (PriceAnalysisCompiled /\ StrictlyIncreasing(Breakpoints)) =>
        LET b == Breakpoints
            n == Len(b)
            r == BuiltRanges
        IN /\ Len(r) = n + 1
           /\ r[1].from = NoNumber /\ r[1].to = Whole(b[1])
           /\ \A k \in 1..(n - 1) :
                r[k + 1].from = Whole(b[k]) /\ r[k + 1].to = Whole(b[k + 1])
           /\ r[n + 1].from = Whole(b[n]) /\ r[n + 1].to = NoNumber
           /\ DistinctKeys(r)
           /\ r[1].key = Template("Under $", Digits(b[1]), "", <<>>)
           /\ r[n + 1].key = Template("Over $", Digits(b[n]), "", <<>>)

\* ranges=50,100,200: four buckets.
C15_Witness ==
    /\ PriceAnalysisCompiled
    /\ searchBody.ranges = Csv(<<Text(<<5, 0>>), Text(<<1, 0, 0>>), Text(<<2, 0, 0>>)>>)
    /\ Len(BuiltRanges) = 4

(* C16: a caller-supplied breakpoint list that is not strictly increasing  *)
(* (a repeated or a decreasing breakpoint) is rejected as an input error   *)
(* at the boundary: no range aggregation is built from it, no query is     *)
(* sent to the engine, and the answer is the input error.                  *)
C16_NonIncreasingBreakpointsRejected ==
    (PriceAnalysisCompiled /\ ~StrictlyIncreasing(Breakpoints)) =>
        /\ searchQuery = Undefined
        /\ searchPc = "done"
        /\ searchResponse.status = 400

LessOrEqual(x, y) == x.num * y.den <= y.num * x.den

SmallestOf(b) == CHOOSE x \in {b[k] : k \in 1..Len(b)} : \A k \in 1..Len(b) : x <= b[k]
LargestOf(b) == CHOOSE x \in {b[k] : k \in 1..Len(b)} : \A k \in 1..Len(b) : x >= b[k]

(* C17: when the caller supplies custom breakpoints as a delimited list,   *)
(* the builder sorts them ascending before deriving the boundaries: for    *)
(* every input order every bucket with both boundaries has from <= to, the *)
(* lowest bucket is labelled "Under $X" with X the smallest breakpoint and *)
(* the highest "Over $Y" with Y the largest.                               *)
C17_BreakpointsSortedBeforeUse ==
    (PriceAnalysisCompiled /\ searchBody.ranges # Undefined) =>
        LET r == BuiltRanges
        IN /\ \A k \in 1..Len(r) :
                (IsFinite(r[k].from) /\ IsFinite(r[k].to)) =>
                    LessOrEqual(r[k].from, r[k].to)
           /\ r[1].key = Template("Under $", Digits(SmallestOf(Breakpoints)), "", <<>>)
           /\ r[Len(r)].key
                = Template("Over $", Digits(LargestOf(Breakpoints)), "", <<>>)

-----------------------------------------------------------------------------
(* Properties of the range aggregations sent to the engine.                *)

AggregationSent ==
    /\ searchPc # "idle"
    /\ searchEndpoint \in {"price-analysis", "facets", "price-distribution",
                            "rating-distribution", "search-analytics"}

\* The lists of ranges of the query that was sent.
SentRanges ==
    CASE searchEndpoint = "price-analysis" -> {searchQuery.aggs.price_ranges.ranges}
      [] searchEndpoint = "facets" ->
            {searchQuery.aggs.price_ranges.ranges, searchQuery.aggs.ratings.ranges}
      [] searchEndpoint \in {"price-distribution", "rating-distribution"} ->
            {searchQuery.aggs.ranges.ranges}
      [] searchEndpoint = "search-analytics" ->
            {searchQuery.aggs.price_ranges_searched.ranges}

\* The boundaries of a list of ranges, in the order in which they are listed.
RECURSIVE Boundaries(_)
Boundaries(r) ==
    IF r = <<>> THEN <<>>
    ELSE (IF IsFinite(Head(r).from) THEN <<Head(r).from>> ELSE <<>>)
         \o (IF IsFinite(Head(r).to) THEN <<Head(r).to>> ELSE <<>>)
         \o Boundaries(Tail(r))

NonDecreasing(b) == \A k \in 1..(Len(b) - 1) : LessOrEqual(b[k], b[k + 1])

\* The key of a bucket: the one given, or the one the engine makes of the boundaries.
BucketKey(range) ==
    IF range.key = Undefined THEN [from |-> range.from, to |-> range.to]
    ELSE [key |-> range.key]

(* C18: every range aggregation that an endpoint sends to the engine       *)
(* (facets price_ranges and ratings, the analytics price and rating        *)
(* distributions, search-analytics, price-analysis) lists its buckets with *)
(* monotonically non-decreasing boundaries and has pairwise distinct       *)
(* bucket keys.                                                            *)
C18_RangesMonotoneWithDistinctKeys ==
    AggregationSent =>
        \A r \in SentRanges :
            /\ NonDecreasing(Boundaries(r))
            /\ \A a, b \in 1..Len(r) : a # b => BucketKey(r[a]) # BucketKey(r[b])

-----------------------------------------------------------------------------
(* Properties of the result shaping.                                       *)

CategoriesShaped ==
    /\ searchEndpoint \in {"analytics-categories", "aggregations-categories"}
    /\ searchPc = "done"
    /\ searchResponse.status = 200

\* p is 100 x part / whole rounded to the nearest integer, a half up
IsNearestPercent(p, part, whole) ==
    2 * whole * p - whole <= 200 * part /\ 200 * part < 2 * whole * p + whole

(* C19: the in-stock percentage of a bucket is inStockCount / docCount x   *)
(* 100 rounded to the nearest integer; for a bucket with docCount = 0 (and *)
(* inStockCount = 0) it is 0, never not-a-number and never an error        *)
(* response; for 0 <= inStockCount <= docCount it lies in 0..100.          *)
C19_InStockPercentage ==
    (/\ searchEndpoint \in {"analytics-categories", "aggregations-categories"}
     /\ searchPc = "done"
     /\ searchReply.ok) =>
        /\ searchResponse.status = 200
        /\ \A k \in 1..Len(searchResponse.categories) :
            LET c == searchResponse.categories[k]
                p == c.in_stock_percentage
            IN /\ p # Null
               /\ IsFinite(p) /\ p.den = 1
               /\ p.num \in 0..100
               /\ c.count = 0 => p = Whole(0)
               /\ c.count > 0 => IsNearestPercent(p.num, c.in_stock_count, c.count)

\* s thousandths is v thousandths rounded to a multiple of unit, a half up:
\* unit 10 for two decimals, unit 100 for one
IsRoundedHalfUp(s, v, unit) ==
    /\ s.milli % unit = 0
    /\ 2 * s.milli - unit <= 2 * v.milli
    /\ 2 * v.milli < 2 * s.milli + unit

\* The averages an endpoint shaped, each with what the engine reported.
ShapedPriceAverages ==
    CASE searchEndpoint = "overview" ->
            {<<searchResponse.average, searchReply.resp.avg_price>>}
      [] searchEndpoint \in {"analytics-categories", "aggregations-categories"} ->
            {<<searchResponse.categories[k].avg_price, searchReply.resp.buckets[k].avg_price>> :
                k \in 1..Len(searchResponse.categories)}
      [] searchEndpoint = "rating-distribution" ->
            {<<searchResponse.rating_ranges[k].average, searchReply.resp.buckets[k].avg>> :
                k \in 1..Len(searchResponse.rating_ranges)}
      [] searchEndpoint = "price-analysis" ->
            {<<searchResponse.price_statistics.average, searchReply.resp.stats.avg>>}
      [] OTHER -> {}

ShapedRatingAverages ==
    CASE searchEndpoint = "overview" ->
            {<<searchResponse.average_rating, searchReply.resp.avg_rating>>}
      [] searchEndpoint \in {"analytics-categories", "aggregations-categories"} ->
            {<<searchResponse.categories[k].avg_rating,
               searchReply.resp.buckets[k].avg_rating>> :
                k \in 1..Len(searchResponse.categories)}
      [] searchEndpoint = "price-distribution" ->
            {<<searchResponse.price_ranges[k].average, searchReply.resp.buckets[k].avg>> :
                k \in 1..Len(searchResponse.price_ranges)}
      [] searchEndpoint = "price-analysis" ->
            {<<searchResponse.price_ranges[k].avg_rating, searchReply.resp.buckets[k].avg>> :
                k \in 1..Len(searchResponse.price_ranges)}
      [] OTHER -> {}

(* C20: the result shaper rounds the same way in every endpoint: a         *)
(* currency average to 2 decimals and a rating average to 1 decimal, a     *)
(* half up, so a price average of 19.999 is shaped to 20.00 and a rating   *)
(* average of 4.449 to 4.4.                                                *)
C20_ConsistentRounding ==
    (searchPc = "done" /\ searchReply.ok) =>
        /\ \A a \in ShapedPriceAverages :
                a[2] # Null => IsRoundedHalfUp(a[1], a[2], 10)
        /\ \A a \in ShapedRatingAverages :
                a[2] # Null => IsRoundedHalfUp(a[1], a[2], 100)

-----------------------------------------------------------------------------
(* The routes that check their input before they call the engine: GET      *)
(* /api/search/suggest, POST /api/aggregations/custom, POST                *)
(* /api/products/bulk and POST /api/analyzers/test.                        *)

\* A bulkIndex that raises when the response reports item errors.
ServiceBulkIndexRaisingOnErrors(outcome) ==
    IF outcome.ok /\ ~outcome.resp.errors THEN Return(outcome.resp)
    ELSE Throw(IF outcome.ok THEN "bulk errors" ELSE outcome.message)

\* bulkIndex: the engine's response whatever its errors flag, a failed call rethrown
ServiceBulkIndex(outcome) ==
    IF outcome.ok THEN Return(outcome.resp) ELSE Throw(outcome.message)

\* this.client.<operation>(...) with this.client null
NullClient == Throw("Cannot read properties of null")

\* A client operation invoked, where the initialization stood when it was,
\* and how the call settled once it has.
ClientCall(op, arg) ==
    [op |-> op, arg |-> arg, during |-> serverPc, outcome |-> Undefined]

\* The call history with the awaited call settled.
Resolve(outcome) == [apiCalls EXCEPT ![Len(apiCalls)].outcome = outcome]

\* Every catch block sending 500, the health check's included.
FailureAlways500(route, message) == [status |-> 500, error |-> message]

(* What a route's catch block sends. *)
Failure(route, message) ==
    CASE route = "health" -> [status |-> 503, state |-> "ERROR", error |-> message]
      [] route = "csv" ->
            [status |-> 500, error |-> "Failed to process CSV file", message |-> message]
      [] OTHER -> [status |-> 500, error |-> message]

(* The handler calls a client operation and awaits it.  With the client    *)
(* unset the call throws inside the handler's try block and the catch      *)
(* block answers before any other event is handled.                        *)
Invoke(route, calls, op, arg, next) ==
    IF client = "null"
        THEN /\ apiResponse' = Failure(route, NullClient.message)
             /\ apiPc' = "done"
             /\ apiCalls' = calls
        ELSE /\ apiCalls' = Append(calls, ClientCall(op, arg))
             /\ apiPc' = next
             /\ UNCHANGED apiResponse

\* The handler sends its response.
Answer(calls, resp) ==
    /\ apiResponse' = resp
    /\ apiPc' = "done"
    /\ apiCalls' = calls

DocList(n) == [k \in 1..n |-> [id |-> k]]

Accepting == serverPc # "starting" /\ apiPc = "idle"

SuggestQueries == {Undefined, Str(""), Str("lap")}

SuggestReceive ==
    /\ Accepting
    /\ \E q \in SuggestQueries :
        /\ apiRequest' = q
        /\ IF ~Truthy(q)
            THEN Answer(apiCalls, [status |-> 400, error |-> "Query parameter \"q\" is required"])
            ELSE Invoke("suggest", apiCalls, "suggest", q, "await")
    /\ apiEndpoint' = "suggest"
    /\ UNCHANGED <<harnessVars, statsVars, searchVars, seedVars, client, serverPc>>

SuggestSettle ==
    /\ apiEndpoint = "suggest"
    /\ apiPc = "await"
    /\ \E outcome \in ClientOutcomes("suggest", apiRequest) :
        LET result == ServiceSearch(outcome)
        IN Answer(Resolve(outcome),
            IF result.threw THEN Failure("suggest", result.message)
            ELSE [status |-> 200, suggestions |-> result.value.options])
    /\ UNCHANGED <<harnessVars, statsVars, searchVars, seedVars, client, serverPc,
                   apiEndpoint, apiRequest>>

CustomQueries == {Undefined, Null, Str(""), Obj(<<>>), Obj(<<Prop("size", Num(0))>>)}

CustomReceive ==
    /\ Accepting
    /\ \E query \in CustomQueries :
        /\ apiRequest' = query
        /\ IF ~Truthy(query)
            THEN Answer(apiCalls, [status |-> 400, error |-> "Query parameter is required"])
            ELSE Invoke("custom", apiCalls, "search", query, "await")
    /\ apiEndpoint' = "custom"
    /\ UNCHANGED <<harnessVars, statsVars, searchVars, seedVars, client, serverPc>>

CustomSettle ==
    /\ apiEndpoint = "custom"
    /\ apiPc = "await"
    /\ \E outcome \in ClientOutcomes("search", apiRequest) :
        LET result == ServiceSearch(outcome)
        IN Answer(Resolve(outcome),
            IF result.threw THEN Failure("custom", result.message)
            ELSE [status |-> 200, query |-> apiRequest,
                  total_documents |-> result.value.hits])
    /\ UNCHANGED <<harnessVars, statsVars, searchVars, seedVars, client, serverPc,
                   apiEndpoint, apiRequest>>

BulkBodies ==
    {Undefined, Null, Str("p"), Obj(<<>>)} \cup {Arr(DocList(n)) : n \in 0..MaxItems}

BulkReceive ==
    /\ Accepting
    /\ \E given \in BulkBodies :
        /\ apiRequest' = given
        /\ IF given.t # "array"
            THEN Answer(apiCalls, [status |-> 400, error |-> "Products must be an array"])
            ELSE Invoke("bulk", apiCalls, "bulk", Len(given.a), "await")
    /\ apiEndpoint' = "bulk"
    /\ UNCHANGED <<harnessVars, statsVars, searchVars, seedVars, client, serverPc>>

BulkSettle ==
    /\ apiEndpoint = "bulk"
    /\ apiPc = "await"
    /\ \E outcome \in ClientOutcomes("bulk", Len(apiRequest.a)) :
        LET result == ServiceBulkIndex(outcome)
        IN Answer(Resolve(outcome),
            IF result.threw THEN Failure("bulk", result.message)
            ELSE [status |-> 200,
                  message |-> "Bulk indexing completed",
                  total |-> Len(apiRequest.a),
                  errors |-> result.value.errors,
                  items |-> Len(result.value.items)])
    /\ UNCHANGED <<harnessVars, statsVars, searchVars, seedVars, client, serverPc,
                   apiEndpoint, apiRequest>>

AnalyzerTexts == {Undefined, Str(""), Str("head")}

AnalyzerTestReceive ==
    /\ Accepting
    /\ \E text \in AnalyzerTexts :
        /\ apiRequest' = text
        /\ IF ~Truthy(text)
            THEN Answer(apiCalls, [status |-> 400, error |-> "Text parameter is required"])
            ELSE Invoke("analyzer-test", apiCalls, "analyze", text, "await-analyze")
    /\ apiEndpoint' = "analyzer-test"
    /\ UNCHANGED <<harnessVars, statsVars, searchVars, seedVars, client, serverPc>>

\* The analysis settles; the handler goes on to the search.
AnalyzerTestAnalyzed ==
    /\ apiEndpoint = "analyzer-test"
    /\ apiPc = "await-analyze"
    /\ \E outcome \in ClientOutcomes("analyze", apiRequest) :
        IF outcome.ok
            THEN Invoke("analyzer-test", Resolve(outcome), "search", apiRequest, "await-search")
            ELSE Answer(Resolve(outcome), Failure("analyzer-test", outcome.message))
    /\ UNCHANGED <<harnessVars, statsVars, searchVars, seedVars, client, serverPc,
                   apiEndpoint, apiRequest>>

AnalyzerTestSettle ==
    /\ apiEndpoint = "analyzer-test"
    /\ apiPc = "await-search"
    /\ \E outcome \in ClientOutcomes("search", apiRequest) :
        LET result == ServiceSearch(outcome)
        IN Answer(Resolve(outcome),
            IF result.threw THEN Failure("analyzer-test", result.message)
            ELSE [status |-> 200, input |-> apiRequest, total |-> result.value.hits])
    /\ UNCHANGED <<harnessVars, statsVars, searchVars, seedVars, client, serverPc,
                   apiEndpoint, apiRequest>>

-----------------------------------------------------------------------------
(* The routes of one product: GET, PUT and DELETE /api/products/:id and    *)
(* GET /api/search/related/:id.                                            *)

\* updateDocument: the response, every error rethrown
ServiceUpdateDocument(outcome) ==
    IF outcome.ok THEN Return(outcome.resp) ELSE Throw(outcome.message)

\* A deleteDocument that rethrows every error, as updateDocument does.
ServiceDeleteDocumentRethrowing(outcome) ==
    IF outcome.ok THEN Return(outcome.resp) ELSE Throw(outcome.message)

\* deleteDocument: the response, null on a 404, any other error rethrown
ServiceDeleteDocument(outcome) ==
    IF outcome.ok THEN Return(outcome.resp)
    ELSE IF outcome.status = 404 THEN Return(Null)
    ELSE Throw(outcome.message)

ProductIds == {1, 2}

ProductNotFound == [status |-> 404, error |-> "Product not found"]

GetProductReceive ==
    /\ Accepting
    /\ \E id \in ProductIds :
        /\ apiRequest' = id
        /\ Invoke("get", apiCalls, "get", id, "await")
    /\ apiEndpoint' = "get"
    /\ UNCHANGED <<harnessVars, statsVars, searchVars, seedVars, client, serverPc>>

GetProductSettle ==
    /\ apiEndpoint = "get"
    /\ apiPc = "await"
    /\ \E outcome \in ClientOutcomes("get", apiRequest) :
        LET result == ServiceGetDocument(outcome)
        IN Answer(Resolve(outcome),
            IF result.threw THEN Failure("get", result.message)
            ELSE IF ~Truthy(result.value) THEN ProductNotFound
            ELSE [status |-> 200, product |-> result.value])
    /\ UNCHANGED <<harnessVars, statsVars, searchVars, seedVars, client, serverPc,
                   apiEndpoint, apiRequest>>

UpdateProductReceive ==
    /\ Accepting
    /\ \E id \in ProductIds :
        /\ apiRequest' = id
        /\ Invoke("update", apiCalls, "get", id, "await-get")
    /\ apiEndpoint' = "update"
    /\ UNCHANGED <<harnessVars, statsVars, searchVars, seedVars, client, serverPc>>

\* getDocument settles; the handler goes on to the update of a product it found.
UpdateProductFound ==
    /\ apiEndpoint = "update"
    /\ apiPc = "await-get"
    /\ \E outcome \in ClientOutcomes("get", apiRequest) :
        LET existingProduct == ServiceGetDocument(outcome)
        IN IF existingProduct.threw
            THEN Answer(Resolve(outcome), Failure("update", existingProduct.message))
           ELSE IF ~Truthy(existingProduct.value)
            THEN Answer(Resolve(outcome), ProductNotFound)
           ELSE Invoke("update", Resolve(outcome), "update", apiRequest, "await-update")
    /\ UNCHANGED <<harnessVars, statsVars, searchVars, seedVars, client, serverPc,
                   apiEndpoint, apiRequest>>

UpdateProductSettle ==
    /\ apiEndpoint = "update"
    /\ apiPc = "await-update"
    /\ \E outcome \in ClientOutcomes("update", apiRequest) :
        LET result == ServiceUpdateDocument(outcome)
        IN Answer(Resolve(outcome),
            IF result.threw THEN Failure("update", result.message)
            ELSE [status |-> 200, product |-> [t |-> "object", id |-> apiRequest]])
    /\ UNCHANGED <<harnessVars, statsVars, searchVars, seedVars, client, serverPc,
                   apiEndpoint, apiRequest>>

DeleteProductReceive ==
    /\ Accepting
    /\ \E id \in ProductIds :
        /\ apiRequest' = id
        /\ Invoke("delete", apiCalls, "delete", id, "await")
    /\ apiEndpoint' = "delete"
    /\ UNCHANGED <<harnessVars, statsVars, searchVars, seedVars, client, serverPc>>

DeleteProductSettle ==
    /\ apiEndpoint = "delete"
    /\ apiPc = "await"
    /\ \E outcome \in ClientOutcomes("delete", apiRequest) :
        LET result == ServiceDeleteDocument(outcome)
        IN Answer(Resolve(outcome),
            IF result.threw THEN Failure("delete", result.message)
            ELSE IF ~Truthy(result.value) THEN ProductNotFound
            ELSE [status |-> 200, message |-> "Product deleted successfully"])
    /\ UNCHANGED <<harnessVars, statsVars, searchVars, seedVars, client, serverPc,
                   apiEndpoint, apiRequest>>

RelatedReceive ==
    /\ Accepting
    /\ \E id \in ProductIds :
        /\ apiRequest' = id
        /\ Invoke("related", apiCalls, "get", id, "await-get")
    /\ apiEndpoint' = "related"
    /\ UNCHANGED <<harnessVars, statsVars, searchVars, seedVars, client, serverPc>>

\* getDocument settles; the handler goes on to the search by the product it found.
RelatedFound ==
    /\ apiEndpoint = "related"
    /\ apiPc = "await-get"
    /\ \E outcome \in ClientOutcomes("get", apiRequest) :
        LET sourceProduct == ServiceGetDocument(outcome)
        IN IF sourceProduct.threw
            THEN Answer(Resolve(outcome), Failure("related", sourceProduct.message))
           ELSE IF ~Truthy(sourceProduct.value)
            THEN Answer(Resolve(outcome), ProductNotFound)
           ELSE Invoke("related", Resolve(outcome), "search", apiRequest, "await-search")
    /\ UNCHANGED <<harnessVars, statsVars, searchVars, seedVars, client, serverPc,
                   apiEndpoint, apiRequest>>

RelatedSettle ==
    /\ apiEndpoint = "related"
    /\ apiPc = "await-search"
    /\ \E outcome \in ClientOutcomes("search", apiRequest) :
        LET result == ServiceSearch(outcome)
        IN Answer(Resolve(outcome),
            IF result.threw THEN Failure("related", result.message)
            ELSE [status |-> 200, related |-> result.value.hits,
                  source |-> [t |-> "object", id |-> apiRequest]])
    /\ UNCHANGED <<harnessVars, statsVars, searchVars, seedVars, client, serverPc,
                   apiEndpoint, apiRequest>>

-----------------------------------------------------------------------------
(* POST /api/upload/csv: the uploaded file is parsed and its products are  *)
(* sent to the engine in one bulk request.                                 *)

\* items.filter(item => item.index.error).length
FailedItems(items) == Cardinality({k \in 1..Len(items) : items[k]})

\* items.filter(item => !item.index.error).length
SuccessfulItems(items) == Cardinality({k \in 1..Len(items) : ~items[k]})

\* req.file: absent, or a file of so many rows
UploadedFiles == {Undefined} \cup {Arr(DocList(n)) : n \in 0..MaxItems}

CsvReceive ==
    /\ Accepting
    /\ \E file \in UploadedFiles :
        /\ apiRequest' = file
        /\ IF ~Truthy(file)
            THEN Answer(apiCalls, [status |-> 400, error |-> "No CSV file uploaded"])
            ELSE /\ apiPc' = "await-parse"
                 /\ UNCHANGED <<apiCalls, apiResponse>>
    /\ apiEndpoint' = "csv"
    /\ UNCHANGED <<harnessVars, statsVars, searchVars, seedVars, client, serverPc>>

\* parseCSVFile settles: the stream ended or failed.
CsvParsed ==
    /\ apiEndpoint = "csv"
    /\ apiPc = "await-parse"
    /\ \E parsed \in BOOLEAN :
        IF parsed
            THEN Invoke("csv", apiCalls, "bulk", Len(apiRequest.a), "await-bulk")
            ELSE Answer(apiCalls, Failure("csv", "read error"))
    /\ UNCHANGED <<harnessVars, statsVars, searchVars, seedVars, client, serverPc,
                   apiEndpoint, apiRequest>>

CsvSettle ==
    /\ apiEndpoint = "csv"
    /\ apiPc = "await-bulk"
    /\ \E outcome \in ClientOutcomes("bulk", Len(apiRequest.a)) :
        LET result == ServiceBulkIndex(outcome)
        IN Answer(Resolve(outcome),
            IF result.threw THEN Failure("csv", result.message)
            ELSE [status |-> 200,
                  message |-> "CSV file uploaded and processed successfully",
                  productsImported |-> Len(apiRequest.a),
                  errors |-> result.value.errors,
                  details |->
                    [total |-> Len(result.value.items),
                     successful |-> SuccessfulItems(result.value.items),
                     failed |-> FailedItems(result.value.items)]])
    /\ UNCHANGED <<harnessVars, statsVars, searchVars, seedVars, client, serverPc,
                   apiEndpoint, apiRequest>>

-----------------------------------------------------------------------------
(* The server: the app.listen callback initializes the service while the   *)
(* server already takes requests, and GET /health.                         *)

\* healthCheck: the cluster's health, any error wrapped in a new one
ServiceHealthCheck(outcome) ==
    IF outcome.ok THEN Return(outcome.resp)
    ELSE Throw("Elasticsearch health check failed: " \o outcome.message)

HealthReceive ==
    /\ Accepting
    /\ apiRequest' = Undefined
    /\ IF client = "null"
        THEN Answer(apiCalls,
                Failure("health", ServiceHealthCheck(
                    Reject(500, NullClient.message)).message))
        ELSE Invoke("health", apiCalls, "health", Undefined, "await")
    /\ apiEndpoint' = "health"
    /\ UNCHANGED <<harnessVars, statsVars, searchVars, seedVars, client, serverPc>>

HealthSettle ==
    /\ apiEndpoint = "health"
    /\ apiPc = "await"
    /\ \E outcome \in ClientOutcomes("health", Undefined) :
        LET health == ServiceHealthCheck(outcome)
        IN Answer(Resolve(outcome),
            IF health.threw THEN Failure("health", health.message)
            ELSE [status |-> 200, state |-> "OK", elasticsearch |-> health.value])
    /\ UNCHANGED <<harnessVars, statsVars, searchVars, seedVars, client, serverPc,
                   apiEndpoint, apiRequest>>

(* The listen callback runs when the server starts to listen, before any   *)
(* request is handled: initialize constructs the client, which may throw   *)
(* on a configuration it rejects, and awaits the ping.                     *)
ServerStart ==
    /\ serverPc = "starting"
    /\ \/ client' = "set" /\ serverPc' = "await-ping"
       \/ client' = "null" /\ serverPc' = "failed"
    /\ UNCHANGED <<harnessVars, statsVars, searchVars, seedVars, apiEndpoint, apiRequest,
                   apiPc, apiCalls, apiResponse>>

\* The ping settles; initialize goes on to createIndex, which asks whether
\* the index exists.
InitializePinged ==
    /\ serverPc = "await-ping"
    /\ \E outcome \in ClientOutcomes("ping", Undefined) :
        serverPc' = IF outcome.ok THEN "await-exists" ELSE "failed"
    /\ UNCHANGED <<harnessVars, statsVars, searchVars, seedVars, client, apiEndpoint,
                   apiRequest, apiPc, apiCalls, apiResponse>>

\* indices.exists settles: the index is there, is to be created, or the call failed.
InitializeExists ==
    /\ serverPc = "await-exists"
    /\ \E outcome \in {"exists", "absent", "error"} :
        serverPc' = CASE outcome = "exists" -> "ready"
                      [] outcome = "absent" -> "await-create"
                      [] outcome = "error" -> "failed"
    /\ UNCHANGED <<harnessVars, statsVars, searchVars, seedVars, client, apiEndpoint,
                   apiRequest, apiPc, apiCalls, apiResponse>>

\* indices.create settles.
InitializeCreated ==
    /\ serverPc = "await-create"
    /\ \E created \in BOOLEAN :
        serverPc' = IF created THEN "ready" ELSE "failed"
    /\ UNCHANGED <<harnessVars, statsVars, searchVars, seedVars, client, apiEndpoint,
                   apiRequest, apiPc, apiCalls, apiResponse>>

\* The response is sent; the server takes the next request.
ApiNextRequest ==
    /\ apiPc = "done"
    /\ apiEndpoint' = "none"
    /\ apiRequest' = Undefined
    /\ apiPc' = "idle"
    /\ apiCalls' = <<>>
    /\ apiResponse' = NoResponse
    /\ UNCHANGED <<harnessVars, statsVars, searchVars, seedVars, client, serverPc>>

ApiNext ==
    \/ ServerStart
    \/ InitializePinged
    \/ InitializeExists
    \/ InitializeCreated
    \/ HealthReceive
    \/ HealthSettle
    \/ GetProductReceive
    \/ GetProductSettle
    \/ UpdateProductReceive
    \/ UpdateProductFound
    \/ UpdateProductSettle
    \/ DeleteProductReceive
    \/ DeleteProductSettle
    \/ RelatedReceive
    \/ RelatedFound
    \/ RelatedSettle
    \/ BulkReceive
    \/ BulkSettle
    \/ CsvReceive
    \/ CsvParsed
    \/ CsvSettle
    \/ ApiNextRequest

\* The server has begun to listen; the listen callback has not run yet.
ServerStarted ==
    /\ client = "null"
    /\ serverPc = "starting"
    /\ RouteIdle

InitApi == HarnessInit /\ StatsIdle /\ SearchIdle /\ ServerStarted /\ SeedIdle

SpecApi == InitApi /\ [][ApiNext]_vars

InputsNext ==
    \/ LoadTestReceive
    \/ SuggestReceive
    \/ SuggestSettle
    \/ CustomReceive
    \/ CustomSettle
    \/ BulkReceive
    \/ BulkSettle
    \/ AnalyzerTestReceive
    \/ AnalyzerTestAnalyzed
    \/ AnalyzerTestSettle
    \/ ApiNextRequest

InitInputs == HarnessInit /\ StatsIdle /\ SearchIdle /\ ApiIdle /\ SeedIdle

SpecInputs == InitInputs /\ [][InputsNext]_vars

\* The required input of the request in progress is missing.
LoadTestInputMissing ==
    /\ endpoint = "loadtest"
    /\ body.queries = Undefined \/ body.queries.t # "array" \/ body.queries.a = <<>>

RouteInputMissing ==
    \/ apiEndpoint \in {"suggest", "analyzer-test"} /\ apiRequest \in {Undefined, Str("")}
    \/ apiEndpoint = "custom" /\ apiRequest \in {Undefined, Null, Str("")}
    \/ apiEndpoint = "bulk" /\ apiRequest.t # "array"

(* C21: a request whose required input is missing (load-test queries       *)
(* absent, not an array or empty; suggest q; custom aggregation query;     *)
(* bulk products not an array; analyzer text) is answered with status 400  *)
(* and an error, and no call to the engine is made for it.                 *)
C21_MissingInputIs400WithoutEngineCall ==
    /\ LoadTestInputMissing =>
        /\ response.status = 400
        /\ "error" \in DOMAIN response
        /\ issued = <<>>
    /\ RouteInputMissing =>
        /\ apiResponse.status = 400
        /\ "error" \in DOMAIN apiResponse
        /\ apiCalls = <<>>

C21_Witness ==
    /\ LoadTestInputMissing
    /\ response.status = 400
    /\ apiEndpoint = "analyzer-test"
    /\ apiRequest = Str("")
    /\ apiResponse.status = 400

-----------------------------------------------------------------------------
(* Properties of the routes of one product. *)

ProductRoutes == {"get", "update", "delete", "related"}

\* The request in progress is answered after at least one call to the engine.
AnsweredAfterCall == apiPc = "done" /\ apiCalls # <<>>

LastCall == apiCalls[Len(apiCalls)]

\* The engine told the call that the document is absent, and the service
\* method that made the call takes that for an answer.
AbsentDocument(call) ==
    /\ call.op \in {"get", "delete"}
    /\ ~call.outcome.ok
    /\ call.outcome.status = 404

(* C22: when the engine reports the id absent to getDocument or            *)
(* deleteDocument, the get, update, delete and related-products routes     *)
(* answer 404 with an error, and no update and no search is issued for the *)
(* absent id; every other engine failure ends in a 500 response that       *)
(* carries the engine's message.                                           *)
C22_AbsentIdIs404OtherFailures500 ==
    apiEndpoint \in ProductRoutes =>
        /\ \A k \in 1..Len(apiCalls) :
            apiCalls[k].op \in {"update", "search"} =>
                k = 2 /\ apiCalls[1].op = "get" /\ apiCalls[1].outcome.ok
        /\ AnsweredAfterCall =>
            /\ AbsentDocument(LastCall) =>
                /\ apiResponse.status = 404
                /\ "error" \in DOMAIN apiResponse
                /\ Len(apiCalls) = 1
            /\ (~LastCall.outcome.ok /\ ~AbsentDocument(LastCall)) =>
                /\ apiResponse.status = 500
                /\ apiResponse.error = LastCall.outcome.message

C22_Witness ==
    /\ apiEndpoint = "update"
    /\ AnsweredAfterCall
    /\ AbsentDocument(LastCall)
    /\ apiResponse.status = 404

-----------------------------------------------------------------------------
(* Properties of the bulk routes. *)

\* The items of the bulk response the request in progress received.
ReceivedItems == LastCall.outcome.resp.items

(* C25: a bulk request of which some items fail is a partial failure: the  *)
(* bulk and CSV-upload routes answer successfully whenever the bulk call   *)
(* itself succeeded, with the number of items, the error flag and, for the *)
(* upload, the successful and failed counts, which add up to the total;    *)
(* after a bulk call only its own failure yields a 500.                    *)
C25_PartialBulkFailureIsSuccess ==
    (apiEndpoint \in {"bulk", "csv"} /\ AnsweredAfterCall) =>
        /\ apiResponse.status = (IF LastCall.outcome.ok THEN 200 ELSE 500)
        /\ LastCall.outcome.ok =>
            /\ apiResponse.errors = (\E k \in 1..Len(ReceivedItems) : ReceivedItems[k])
            /\ apiEndpoint = "bulk" =>
                /\ apiResponse.total = Len(apiRequest.a)
                /\ apiResponse.items = Len(apiRequest.a)
            /\ apiEndpoint = "csv" =>
                /\ apiResponse.details.total = Len(apiRequest.a)
                /\ apiResponse.details.successful + apiResponse.details.failed
                        = apiResponse.details.total
                /\ apiResponse.details.failed = FailedItems(ReceivedItems)

C25_Witness ==
    /\ apiEndpoint = "csv"
    /\ AnsweredAfterCall
    /\ LastCall.outcome.ok
    /\ apiResponse.status = 200
    /\ apiResponse.errors
    /\ apiResponse.details.successful = 1
    /\ apiResponse.details.failed = 1

-----------------------------------------------------------------------------
(* Properties of the server's start. *)

\* The request in progress was not turned away for its input.
ReachedService == apiPc = "done" /\ apiResponse.status # 400

ErrorStatus == IF apiEndpoint = "health" THEN 503 ELSE 500

-----------------------------------------------------------------------------
(* Properties of the queries compiled with size 0. *)

\* The request in progress has sent a query that asks for no hits.
SizeZeroSent == searchQuery # Undefined /\ searchQuery.size = 0

(* C23: a compiled query with size 0 is aggregation-only: beside its       *)
(* aggregations it has no query clause, or one that matches every          *)
(* document; no text or range clause restricts the documents aggregated.   *)
C23_SizeZeroQueriesAreAggregationOnly ==
    SizeZeroSent =>
        \/ "query" \notin DOMAIN searchQuery
        \/ searchQuery.query.kind = "match_all"

-----------------------------------------------------------------------------
(* Properties of the harness: an overall timeout, the counts, the kind of  *)
(* operation.                                                              *)

\* The overall timeouts a caller may impose, in milliseconds from the start
\* of the run (the run starts at 0): as long as one call may take.
OverallTimeouts == DurationVals

(* C24: a started run goes on to completion or until the caller's overall  *)
(* timeout elapses; once it has elapsed no further call is issued and      *)
(* every query not completed by then is reported as failed with a timeout  *)
(* error, so that every (iteration, position) has its entry.               *)
C24_OverallTimeoutEndsTheRun ==
    LoadTestRuns =>
        \A T \in OverallTimeouts :
            /\ \A k \in 1..Len(issued) : issued[k].start < T
            /\ \A k \in 1..Len(settled) :
                settled[k].endTime > T => EntriesSoFar[k].success = FALSE

\* The number of entries of the result with success = true.
SuccessfulEntries(entries) == Cardinality({k \in 1..Len(entries) : entries[k].success})

(* C26: after a load-test run of n >= 1 iterations over q >= 1 queries     *)
(* the counts are conserved: totalQueries = n * q = successfulQueries +    *)
(* failedQueries, neither negative, and successfulQueries is the number of *)
(* entries with success = true; the benchmark summary has totalTests =     *)
(* successfulTests + failedTests = the number of benchmark queries.        *)
C26_CountsConserved ==
    /\ (LoadTestDone /\ params.iterations >= 1) =>
        LET st == response.statistics
            entries == Flatten(response.results)
        IN /\ st.totalQueries = params.iterations * NumQueries
           /\ st.totalQueries = st.successfulQueries + st.failedQueries
           /\ st.successfulQueries >= 0
           /\ st.failedQueries >= 0
           /\ st.successfulQueries = SuccessfulEntries(entries)
           /\ Len(entries) = st.totalQueries
    /\ BenchmarkDone =>
        LET summary == response.summary
        IN /\ summary.totalTests = Len(BenchmarkTests)
           /\ summary.totalTests = summary.successfulTests + summary.failedTests
           /\ summary.successfulTests = SuccessfulEntries(response.tests)
           /\ summary.failedTests >= 0

C26_Witness ==
    /\ LoadTestDone
    /\ params.iterations = 2
    /\ NumQueries = 2
    /\ response.statistics.successfulQueries = 3
    /\ response.statistics.failedQueries = 1

-----------------------------------------------------------------------------
(* Properties of the statistics: order. *)

\* v is a whole number that occurs in arr.
IsElementOf(v, arr) ==
    /\ IsFinite(v)
    /\ v.den = 1
    /\ \E k \in 1..Len(arr) : arr[k] = v.num

\* The values, finite all, do not decrease from each to the next.
Ascending(values) ==
    /\ \A k \in 1..Len(values) : IsFinite(values[k])
    /\ \A k \in 1..(Len(values) - 1) : LessOrEqual(values[k], values[k + 1])

(* C27: for every non-empty list of durations, a single one included, each *)
(* reported percentile is an element of the list, and minDuration <= p50   *)
(* <= p90 <= p95 <= p99 <= maxDuration and minDuration <= averageDuration  *)
(* <= maxDuration.                                                         *)
C27_StatisticsOrdered ==
    (StatisticsDone /\ givenDurations # <<>>) =>
        LET st == statistics.stats
        IN /\ \A v \in {st.p50Duration, st.p90Duration, st.p95Duration, st.p99Duration} :
                IsElementOf(v, givenDurations)
           /\ Ascending(<<st.minDuration, st.p50Duration, st.p90Duration,
                          st.p95Duration, st.p99Duration, st.maxDuration>>)
           /\ Ascending(<<st.minDuration, st.averageDuration, st.maxDuration>>)

C27_Witness ==
    /\ StatisticsDone
    /\ givenDurations = <<10, 2, 7, 2>>
    /\ statistics.stats.p50Duration = Whole(2)
    /\ statistics.stats.p90Duration = Whole(10)
    /\ statistics.stats.averageDuration = Fin(21, 4)

\* The operation the switch on testType selects.
SelectedOperation ==
    IF params.testType \in {"index", "get"} THEN params.testType ELSE "search"

(* C29: in a load-test with testType 'get' a query whose id is absent from *)
(* the index, for which getDocument returns null, is recorded as a failed  *)
(* call with an error message and a duration, not as a success with zero   *)
(* hits, and the run goes on with the next query; with testType 'index' a  *)
(* successful call is recorded with hits = 0; every testType other than    *)
(* 'index' and 'get' executes a search.                                    *)
C29_AbsentDocumentIsFailedCall ==
    LoadTestRuns =>
        /\ \A k \in 1..Len(issued) : issued[k].op = SelectedOperation
        /\ Len(EntriesSoFar) = Len(settled)
        /\ \A k \in 1..Len(settled) :
            LET s == settled[k]
                e == EntriesSoFar[k]
            IN /\ (s.call.op = "get" /\ ~s.result.threw /\ s.result.value = Null) =>
                    /\ e.success = FALSE
                    /\ "error" \in DOMAIN e
                    /\ e.duration = s.endTime - s.call.start
                    /\ "hits" \notin DOMAIN e
               /\ (s.call.op = "index" /\ Succeeded(s)) =>
                    /\ e.success = TRUE
                    /\ e.hits = 0
        /\ (pc = "issue" /\ Len(settled) < params.iterations * NumQueries) =>
                ENABLED LoadTestIssue
        /\ LoadTestDone => Len(settled) = params.iterations * NumQueries

\* A get of an absent id was recorded as failed and the next query was issued.
C29_Witness ==
    /\ LoadTestRuns
    /\ params.testType = "get"
    /\ Len(settled) >= 1
    /\ settled[1].result = Return(Null)
    /\ EntriesSoFar[1].success = FALSE
    /\ Len(issued) = 2
    /\ issued[2].position = 2

-----------------------------------------------------------------------------
(* seedData, the seeding script: the index is deleted and created anew and *)
(* the generated products are sent to it in batches.  The script is the    *)
(* engine's only client while it runs.                                     *)

batchSize == 100

\* parseInt(process.env.SEED_COUNT || 1000)
SeedCounts == {0, 1, 99, 100, 101, 200, 250, 1000}

\* generateProducts(count): the products, told apart by their position
GenerateProducts(count) == [k \in 1..count |-> k]

\* A batch that starts one product early, at the last one of the batch before.
SeedBatchOverlapping(ps, from) ==
    SubSeq(ps, IF from = 0 THEN 1 ELSE from,
           IF from + batchSize < Len(ps) THEN from + batchSize ELSE Len(ps))

\* products.slice(i, i + batchSize)
SeedBatchAt(ps, from) ==
    SubSeq(ps, from + 1, IF from + batchSize < Len(ps) THEN from + batchSize ELSE Len(ps))

\* A call to the engine, with the batch it carries and how it settled.
SeedCall(op, batch) == [op |-> op, batch |-> batch, outcome |-> "pending"]

\* The calls so far, the awaited one settled.
SeedSettled(outcome) == [seedCalls EXCEPT ![Len(seedCalls)].outcome = outcome]

\* Whether the index exists: initialize has created it if it was not there,
\* and since then the script's own delete and create decide.
IndexExists ==
    LET changes == {k \in 1..Len(seedCalls) : seedCalls[k].op \in {"delete", "create"}}
    IN \/ changes = {}
       \/ seedCalls[CHOOSE k \in changes : \A j \in changes : j <= k].op = "create"

\* catch (error) { process.exit(1) }
SeedAbort ==
    /\ seedCalls' = SeedSettled("failed")
    /\ seedPc' = "exited"
    /\ exitCode' = "1"
    /\ UNCHANGED <<products, seedI, inserted>>

\* The awaited call has succeeded and the script awaits its next call.
SeedProceed(op, next) ==
    /\ seedCalls' = Append(SeedSettled("ok"), SeedCall(op, <<>>))
    /\ seedPc' = next
    /\ UNCHANGED <<products, seedI, inserted, exitCode>>

(* The head of the for loop: the next batch is sent, or the loop has ended *)
(* and the script waits five seconds.                                      *)
SeedLoop(ps, from, calls) ==
    IF from < Len(ps)
        THEN /\ seedCalls' = Append(calls, SeedCall("bulk", SeedBatchAt(ps, from)))
             /\ seedPc' = "await-bulk"
        ELSE /\ seedCalls' = calls
             /\ seedPc' = "await-timer"

\* The index is there anew: the products are generated and the loop begins.
SeedGenerate ==
    \E count \in SeedCounts :
        /\ products' = GenerateProducts(count)
        /\ seedI' = 0
        /\ inserted' = 0
        /\ SeedLoop(products', 0, SeedSettled("ok"))
        /\ UNCHANGED exitCode

SeedStart ==
    /\ seedPc = "start"
    /\ seedCalls' = <<SeedCall("initialize", <<>>)>>
    /\ seedPc' = "await-initialize"
    /\ UNCHANGED <<harnessVars, statsVars, searchVars, apiVars, products, seedI, inserted,
                   exitCode>>

\* initialize settles; deleteIndex asks whether the index exists.
SeedInitialized ==
    /\ seedPc = "await-initialize"
    /\ \/ SeedProceed("exists", "await-delete-exists")
       \/ SeedAbort
    /\ UNCHANGED <<harnessVars, statsVars, searchVars, apiVars>>

\* deleteIndex: indices.exists settles; createIndex follows a missing index at once.
SeedDeleteExists ==
    /\ seedPc = "await-delete-exists"
    /\ \/ IF IndexExists
            THEN SeedProceed("delete", "await-delete")
            ELSE SeedProceed("exists", "await-create-exists")
       \/ SeedAbort
    /\ UNCHANGED <<harnessVars, statsVars, searchVars, apiVars>>

\* deleteIndex: indices.delete settles; createIndex asks whether the index exists.
SeedDeleted ==
    /\ seedPc = "await-delete"
    /\ \/ SeedProceed("exists", "await-create-exists")
       \/ SeedAbort
    /\ UNCHANGED <<harnessVars, statsVars, searchVars, apiVars>>

\* createIndex: indices.exists settles.
SeedCreateExists ==
    /\ seedPc = "await-create-exists"
    /\ \/ IF IndexExists
            THEN SeedGenerate
            ELSE SeedProceed("create", "await-create")
       \/ SeedAbort
    /\ UNCHANGED <<harnessVars, statsVars, searchVars, apiVars>>

\* createIndex: indices.create settles.
SeedCreated ==
    /\ seedPc = "await-create"
    /\ \/ SeedGenerate
       \/ SeedAbort
    /\ UNCHANGED <<harnessVars, statsVars, searchVars, apiVars>>

(* bulkIndex settles: a response, whether or not it reports item errors,   *)
(* counts the batch as inserted; a rejected call ends the script.          *)
SeedBatchSettled ==
    /\ seedPc = "await-bulk"
    /\ \/ \E outcome \in {"ok", "ok with item errors"} :
            LET batch == seedCalls[Len(seedCalls)].batch
            IN /\ inserted' = inserted + Len(batch)
               /\ seedI' = seedI + batchSize
               /\ SeedLoop(products, seedI', SeedSettled(outcome))
               /\ UNCHANGED <<products, exitCode>>
       \/ SeedAbort
    /\ UNCHANGED <<harnessVars, statsVars, searchVars, apiVars>>

\* The five seconds have passed: getIndexStats is called.
SeedWaited ==
    /\ seedPc = "await-timer"
    /\ seedCalls' = Append(seedCalls, SeedCall("stats", <<>>))
    /\ seedPc' = "await-stats"
    /\ UNCHANGED <<harnessVars, statsVars, searchVars, apiVars, products, seedI, inserted,
                   exitCode>>

\* getIndexStats settles: the script ends, or exits with 1.
SeedVerified ==
    /\ seedPc = "await-stats"
    /\ \/ /\ seedCalls' = SeedSettled("ok")
          /\ seedPc' = "done"
          /\ UNCHANGED <<products, seedI, inserted, exitCode>>
       \/ SeedAbort
    /\ UNCHANGED <<harnessVars, statsVars, searchVars, apiVars>>

SeedNext ==
    \/ SeedStart
    \/ SeedInitialized
    \/ SeedDeleteExists
    \/ SeedDeleted
    \/ SeedCreateExists
    \/ SeedCreated
    \/ SeedBatchSettled
    \/ SeedWaited
    \/ SeedVerified

\* seedData is called.
SeedCalled ==
    /\ seedPc = "start"
    /\ products = <<>>
    /\ seedI = 0
    /\ inserted = 0
    /\ seedCalls = <<>>
    /\ exitCode = "running"

InitSeed == HarnessInit /\ StatsIdle /\ SearchIdle /\ ApiIdle /\ SeedCalled

SpecSeed == InitSeed /\ [][SeedNext]_vars

-----------------------------------------------------------------------------
(* Properties of the seeding script. *)

\* The products of the bulk calls among the calls, in the order sent.
RECURSIVE SentProducts(_)
SentProducts(calls) ==
    IF calls = <<>> THEN <<>>
    ELSE (IF Head(calls).op = "bulk" THEN Head(calls).batch ELSE <<>>)
            \o SentProducts(Tail(calls))

\* The bulk calls that have come back with a response.
AnsweredBatches ==
    SelectSeq(seedCalls,
              LAMBDA c : c.op = "bulk" /\ c.outcome \in {"ok", "ok with item errors"})

SeedLoopEnded ==
    \/ seedPc \in {"await-timer", "await-stats", "done"}
    \/ seedPc = "exited" /\ seedCalls[Len(seedCalls)].op = "stats"

(* C30: seedData deletes the existing index and creates it anew before the *)
(* first bulk insert; it sends the products in consecutive batches of at   *)
(* most 100, in their order, each product in one batch; after each batch   *)
(* inserted is the number of products sent so far, and the product count   *)
(* when the loop has ended; a failed step or batch ends the script with    *)
(* exit code 1 and no later call is made.                                  *)
C30_SeedingInBatches ==
    /\ \A k \in 1..Len(seedCalls) :
        seedCalls[k].op = "bulk" =>
            /\ \E d, c \in 1..k :
                /\ d < c
                /\ seedCalls[d].op = "delete" /\ seedCalls[d].outcome = "ok"
                /\ seedCalls[c].op = "create" /\ seedCalls[c].outcome = "ok"
            /\ Len(seedCalls[k].batch) \in 1..batchSize
    /\ LET sent == SentProducts(seedCalls)
       IN /\ Len(sent) <= Len(products)
          /\ sent = SubSeq(products, 1, Len(sent))
          /\ SeedLoopEnded => sent = products /\ inserted = Len(products)
    /\ inserted = Len(SentProducts(AnsweredBatches))
    /\ \A k \in 1..(Len(seedCalls) - 1) :
        seedCalls[k].outcome \in {"ok", "ok with item errors"}
    /\ (\E k \in 1..Len(seedCalls) : seedCalls[k].outcome = "failed") <=> exitCode = "1"
    /\ exitCode = "1" => ~ENABLED SeedNext

\* 250 products went out in three batches, the second of which failed in part.
C30_Witness ==
    /\ seedPc = "done"
    /\ Len(products) = 250
    /\ inserted = 250
    /\ Len(AnsweredBatches) = 3
    /\ AnsweredBatches[2].outcome = "ok with item errors"
    /\ Len(AnsweredBatches[3].batch) = 50

====
